---- MODULE Spec2Model ----
(***************************************************************************)
(* A model of the PLAIN codec layer of the parquet crate                   *)
(* (src/parquet/src/data_type.rs) and of the byte-slice and binary-search  *)
(* helpers of the parquet-variant crate (src/parquet-variant/src/utils.rs).*)
(*                                                                         *)
(* Platform: a little-endian target whose usize is wide enough that        *)
(* cursor arithmetic (start + len, size * n) never overflows.  The owned   *)
(* byte buffer type (bytes::Bytes) aborts on an out-of-range slice.        *)
(*                                                                         *)
(* Values of the bulk fixed-width types (i32, i64, f32, f64) are modelled  *)
(* by their in-memory image, a sequence of size_of(T) bytes: the code      *)
(* encodes and decodes them by copying that image.                         *)
(***************************************************************************)
EXTENDS Integers, Sequences, FiniteSets, TLC

VARIABLES ty, decoder, last, page, rt, slc, bs, app

vars == <<ty, decoder, last, page, rt, slc, bs, app>>

(***************************************************************************)
(* Bounds of the model.                                                    *)
(***************************************************************************)
\* longest raw buffer handed to set_data for the bit/length-prefixed types
MaxBuf == 8
\* largest num_values handed to set_data
MaxVals == 2
\* largest buffer length / count handed to decode / skip
MaxReq == 2
\* largest type_length of a FIXED_LEN_BYTE_ARRAY column
MaxTypeLen == 2

\* longest batch handed to encode (a bool batch may be 8 values longer, so
\* that it crosses a byte of the bit-packed output)
MaxBatch == 2
\* longest byte-array value handed to encode
MaxValueLen == 2

\* longest buffer handed to the slice helpers
MaxSliceLen == 3
\* width in bits of the modelled usize (the address width, scaled down)
UsizeBits == 5
\* number of indices the binary search's key extractor is defined on
MaxIdx == 4
\* largest key
MaxKey == 2

\* byte values the raw buffers are drawn from
ByteAlphabet == {0, 1}

Min(a, b) == IF a < b THEN a ELSE b

\* all sequences over S of length 0..n
SeqsUpTo(S, n) == UNION {[1..k -> S] : k \in 0..n}

(***************************************************************************)
(* Physical types (crate::basic::Type as named by PHYSICAL_TYPE).          *)
(***************************************************************************)
RawTypes == {"INT32", "INT64", "FLOAT", "DOUBLE"}

PhysicalTypes ==
    {"BOOLEAN", "INT96", "BYTE_ARRAY", "FIXED_LEN_BYTE_ARRAY"} \cup RawTypes

\* std::mem::size_of::<Self>() of the impl_from_raw! instantiations
size_of(t) ==
    CASE t = "INT32" -> 4
      [] t = "INT64" -> 8
      [] t = "FLOAT" -> 4
      [] t = "DOUBLE" -> 8

(***************************************************************************)
(* Results of a call: Ok(n), the EOF error, or an abort (panic).           *)
(***************************************************************************)
Ok(n) == [kind |-> "Ok", n |-> n]
EofErr == [kind |-> "EofErr", n |-> 0]
Panic == [kind |-> "Panic", n |-> 0]

\* what a decode/skip call leaves behind: the cursor, the result, the
\* caller's output buffer
Call(d, r, out) == [dec |-> d, res |-> r, out |-> out]

(***************************************************************************)
(* Values.                                                                 *)
(***************************************************************************)
\* ByteArray { data: Option<Bytes> }
ByteArray_new == [set |-> FALSE, bytes |-> <<>>]
ByteArray_from(b) == [set |-> TRUE, bytes |-> b]

\* T::default(), the content of a fresh output buffer
DefaultValue(t) ==
    CASE t = "BOOLEAN" -> FALSE
      [] t = "INT96" -> <<0, 0, 0>>
      [] t \in {"BYTE_ARRAY", "FIXED_LEN_BYTE_ARRAY"} -> ByteArray_new
      [] OTHER -> [i \in 1..size_of(t) |-> 0]

DefaultBuffer(t, n) == [i \in 1..n |-> DefaultValue(t)]

\* a variant that writes the most significant byte first
u32_to_be_bytes(w) ==
    <<(w \div 16777216) % 256, (w \div 65536) % 256, (w \div 256) % 256, w % 256>>

\* u32::to_ne_bytes / the memory image of a u32 (little-endian target)
u32_to_le_bytes(w) ==
    <<w % 256, (w \div 256) % 256, (w \div 65536) % 256, (w \div 16777216) % 256>>

\* u32::from_le_bytes / from_ne_bytes
u32_from_le_bytes(b) ==
    b[1] + 256 * b[2] + 65536 * b[3] + 16777216 * b[4]

\* bytes::Bytes::slice(begin..end) for begin <= end <= len
Slice(data, begin, end) == SubSeq(data, begin + 1, end)

(***************************************************************************)
(* The decoder cursor (PlainDecoderDetails, as the codec uses it).         *)
(***************************************************************************)
BitReader_none == [set |-> FALSE, buffer |-> <<>>, pos |-> 0]

\* BitReader::new(data)
BitReader_new(data) == [set |-> TRUE, buffer |-> data, pos |-> 0]

PlainDecoderDetails_new(type_length) ==
    [data_set |-> FALSE, data |-> <<>>, start |-> 0, num_values |-> 0,
     type_length |-> type_length, bit_reader |-> BitReader_none]

\* bit i (0-based, LSB first within each byte) of a byte buffer
BitAt(buffer, i) == (buffer[(i \div 8) + 1] \div (2 ^ (i % 8))) % 2

\* BitReader: number of values of 1 bit that get_batch / skip can serve
BitReader_available(br, n) == Min(n, 8 * Len(br.buffer) - br.pos)

(***************************************************************************)
(* ParquetValueType::set_data                                              *)
(***************************************************************************)
bool_set_data(d, data, num_values) ==
    [d EXCEPT !.bit_reader = BitReader_new(data), !.num_values = num_values]

\* a variant that leaves the cursor where it was
raw_set_data_keeping_start(d, data, num_values) ==
    [d EXCEPT !.data_set = TRUE, !.data = data, !.num_values = num_values]

raw_set_data(d, data, num_values) ==
    [d EXCEPT !.data_set = TRUE, !.data = data, !.start = 0,
              !.num_values = num_values]

set_data(t, d, data, num_values) ==
    IF t = "BOOLEAN" THEN bool_set_data(d, data, num_values)
    ELSE raw_set_data(d, data, num_values)

(***************************************************************************)
(* ParquetValueType::decode                                                *)
(***************************************************************************)
bool_decode(buffer, d) ==
    IF ~d.bit_reader.set THEN Call(d, Panic, buffer)
    ELSE LET num_values == Min(Len(buffer), d.num_values)
             br == d.bit_reader
             values_read == BitReader_available(br, num_values)
             out == [i \in 1..Len(buffer) |->
                       IF i <= values_read
                       THEN BitAt(br.buffer, br.pos + i - 1) = 1
                       ELSE buffer[i]]
         IN Call([d EXCEPT !.bit_reader.pos = @ + values_read,
                           !.num_values = @ - values_read],
                 Ok(values_read), out)

raw_decode(t, buffer, d) ==
    IF ~d.data_set THEN Call(d, Panic, buffer)
    ELSE LET num_values == Min(Len(buffer), d.num_values)
             bytes_to_decode == size_of(t) * num_values
         IN IF d.start > Len(d.data) THEN Call(d, Panic, buffer)
            ELSE IF Len(d.data) - d.start < bytes_to_decode
            THEN Call(d, EofErr, buffer)
            ELSE Call([d EXCEPT !.start = @ + bytes_to_decode,
                                !.num_values = @ - num_values],
                      Ok(num_values),
                      [i \in 1..Len(buffer) |->
                         IF i <= num_values
                         THEN Slice(d.data, d.start + size_of(t) * (i - 1),
                                    d.start + size_of(t) * i)
                         ELSE buffer[i]])

Int96_decode(buffer, d) ==
    IF ~d.data_set THEN Call(d, Panic, buffer)
    ELSE LET num_values == Min(Len(buffer), d.num_values)
             bytes_to_decode == 12 * num_values
         IN IF d.start > Len(d.data) THEN Call(d, Panic, buffer)
            ELSE IF Len(d.data) - d.start < bytes_to_decode
            THEN Call(d, EofErr, buffer)
            ELSE LET bytes == Slice(d.data, d.start, d.start + bytes_to_decode)
                     word(pos) == u32_from_le_bytes(Slice(bytes, pos, pos + 4))
                 IN Call([d EXCEPT !.start = @ + bytes_to_decode,
                                   !.num_values = @ - num_values],
                         Ok(num_values),
                         [i \in 1..Len(buffer) |->
                            IF i <= num_values
                            THEN <<word(12 * (i - 1)), word(12 * (i - 1) + 4),
                                   word(12 * (i - 1) + 8)>>
                            ELSE buffer[i]])

\* crate::util::bit_util::read_num_bytes::<u32>(size, src): aborts unless
\* size <= src.len(), else the native-endian value of the first bytes
read_num_bytes_ok(size, src) == size <= Len(src)

read_num_bytes(size, src) == u32_from_le_bytes(SubSeq(src, 1, size))

RECURSIVE ByteArray_decode_loop(_, _, _, _)
ByteArray_decode_loop(d, buffer, i, num_values) ==
    IF i > num_values
    THEN Call([d EXCEPT !.num_values = @ - num_values], Ok(num_values), buffer)
    ELSE IF d.start > Len(d.data) THEN Call(d, Panic, buffer)
    ELSE IF ~read_num_bytes_ok(4, Slice(d.data, d.start, Len(d.data)))
    THEN Call(d, Panic, buffer)
    ELSE LET len == read_num_bytes(4, Slice(d.data, d.start, Len(d.data)))
             d1 == [d EXCEPT !.start = @ + 4]
         IN IF Len(d.data) < d1.start + len THEN Call(d1, EofErr, buffer)
            ELSE ByteArray_decode_loop(
                     [d1 EXCEPT !.start = @ + len],
                     [buffer EXCEPT ![i] =
                         ByteArray_from(Slice(d.data, d1.start, d1.start + len))],
                     i + 1, num_values)

\* a variant that counts the value it failed on as consumed
ByteArray_decode_counting(buffer, d) ==
    IF ~d.data_set THEN Call(d, Panic, buffer)
    ELSE LET c == ByteArray_decode_loop(d, buffer, 1,
                                        Min(Len(buffer), d.num_values))
         IN IF c.res.kind = "EofErr"
            THEN Call([c.dec EXCEPT !.num_values = @ - 1], c.res, c.out)
            ELSE c

ByteArray_decode(buffer, d) ==
    IF ~d.data_set THEN Call(d, Panic, buffer)
    ELSE ByteArray_decode_loop(d, buffer, 1, Min(Len(buffer), d.num_values))

RECURSIVE FixedLenByteArray_decode_loop(_, _, _, _)
FixedLenByteArray_decode_loop(d, buffer, i, num_values) ==
    IF i > num_values
    THEN Call([d EXCEPT !.num_values = @ - num_values], Ok(num_values), buffer)
    ELSE LET len == d.type_length
         IN IF Len(d.data) < d.start + len THEN Call(d, EofErr, buffer)
            ELSE FixedLenByteArray_decode_loop(
                     [d EXCEPT !.start = @ + len],
                     [buffer EXCEPT ![i] =
                         ByteArray_from(Slice(d.data, d.start, d.start + len))],
                     i + 1, num_values)

FixedLenByteArray_decode(buffer, d) ==
    IF ~(d.type_length > 0) THEN Call(d, Panic, buffer)
    ELSE IF ~d.data_set THEN Call(d, Panic, buffer)
    ELSE FixedLenByteArray_decode_loop(d, buffer, 1,
                                       Min(Len(buffer), d.num_values))

decode(t, buffer, d) ==
    CASE t = "BOOLEAN" -> bool_decode(buffer, d)
      [] t = "INT96" -> Int96_decode(buffer, d)
      [] t = "BYTE_ARRAY" -> ByteArray_decode(buffer, d)
      [] t = "FIXED_LEN_BYTE_ARRAY" -> FixedLenByteArray_decode(buffer, d)
      [] OTHER -> raw_decode(t, buffer, d)

(***************************************************************************)
(* ParquetValueType::skip.  A skip call has no output buffer.              *)
(*                                                                         *)
(* The fixed-width skips compute `data.len() - decoder.start` in usize     *)
(* before anything else looks at start.  With start past the end of the    *)
(* buffer the outcome depends on how the crate is built, so the skips take *)
(* the build as an input, overflow_checks: TRUE is a build with overflow   *)
(* checks (the dev profile), in which the subtraction aborts; FALSE is one *)
(* without (the release profile), in which it wraps to                     *)
(* 2^64 - (start - data.len()).  The wrapped bytes_left is not below       *)
(* bytes_to_skip for any cursor and count whose start + bytes_to_skip fits *)
(* a usize, so the EOF test passes and the cursor moves on.  (decode has   *)
(* the same subtraction but then aborts in Bytes::slice in either build.)  *)
(***************************************************************************)
bool_skip(d, n) ==
    IF ~d.bit_reader.set THEN Call(d, Panic, <<>>)
    ELSE LET num_values == Min(n, d.num_values)
             values_read == BitReader_available(d.bit_reader, num_values)
         IN Call([d EXCEPT !.bit_reader.pos = @ + values_read,
                           !.num_values = @ - values_read],
                 Ok(values_read), <<>>)

raw_skip(t, d, n, overflow_checks) ==
    IF ~d.data_set THEN Call(d, Panic, <<>>)
    ELSE LET num_values == Min(n, d.num_values)
             bytes_to_skip == size_of(t) * num_values
             wraps == d.start > Len(d.data)
         IN IF wraps /\ overflow_checks THEN Call(d, Panic, <<>>)
            ELSE IF ~wraps /\ Len(d.data) - d.start < bytes_to_skip
            THEN Call(d, EofErr, <<>>)
            ELSE Call([d EXCEPT !.start = @ + bytes_to_skip,
                                !.num_values = @ - num_values],
                      Ok(num_values), <<>>)

\* a variant that moves the cursor to the end of the buffer when the bytes
\* left are too few
Int96_skip_to_end(d, n, overflow_checks) ==
    IF ~d.data_set THEN Call(d, Panic, <<>>)
    ELSE LET num_values == Min(n, d.num_values)
             bytes_to_skip == 12 * num_values
             wraps == d.start > Len(d.data)
         IN IF wraps /\ overflow_checks THEN Call(d, Panic, <<>>)
            ELSE IF ~wraps /\ Len(d.data) - d.start < bytes_to_skip
            THEN Call([d EXCEPT !.start = Len(d.data)], EofErr, <<>>)
            ELSE Call([d EXCEPT !.start = @ + bytes_to_skip,
                                !.num_values = @ - num_values],
                      Ok(num_values), <<>>)

Int96_skip(d, n, overflow_checks) ==
    IF ~d.data_set THEN Call(d, Panic, <<>>)
    ELSE LET num_values == Min(n, d.num_values)
             bytes_to_skip == 12 * num_values
             wraps == d.start > Len(d.data)
         IN IF wraps /\ overflow_checks THEN Call(d, Panic, <<>>)
            ELSE IF ~wraps /\ Len(d.data) - d.start < bytes_to_skip
            THEN Call(d, EofErr, <<>>)
            ELSE Call([d EXCEPT !.start = @ + bytes_to_skip,
                                !.num_values = @ - num_values],
                      Ok(num_values), <<>>)

RECURSIVE ByteArray_skip_loop(_, _, _)
ByteArray_skip_loop(d, i, num_values) ==
    IF i > num_values
    THEN Call([d EXCEPT !.num_values = @ - num_values], Ok(num_values), <<>>)
    ELSE IF d.start > Len(d.data) THEN Call(d, Panic, <<>>)
    ELSE IF ~read_num_bytes_ok(4, Slice(d.data, d.start, Len(d.data)))
    THEN Call(d, Panic, <<>>)
    ELSE LET len == read_num_bytes(4, Slice(d.data, d.start, Len(d.data)))
         IN ByteArray_skip_loop([d EXCEPT !.start = @ + 4 + len],
                                i + 1, num_values)

\* a variant that reports the end of the buffer before looking at the count
ByteArray_skip_probing(d, n) ==
    IF ~d.data_set THEN Call(d, Panic, <<>>)
    ELSE IF d.start >= Len(d.data) THEN Call(d, EofErr, <<>>)
    ELSE ByteArray_skip_loop(d, 1, Min(n, d.num_values))

ByteArray_skip(d, n) ==
    IF ~d.data_set THEN Call(d, Panic, <<>>)
    ELSE ByteArray_skip_loop(d, 1, Min(n, d.num_values))

RECURSIVE FixedLenByteArray_skip_loop(_, _, _)
FixedLenByteArray_skip_loop(d, i, num_values) ==
    IF i > num_values
    THEN Call([d EXCEPT !.num_values = @ - num_values], Ok(num_values), <<>>)
    ELSE LET len == d.type_length
         IN IF Len(d.data) < d.start + len THEN Call(d, EofErr, <<>>)
            ELSE FixedLenByteArray_skip_loop([d EXCEPT !.start = @ + len],
                                             i + 1, num_values)

FixedLenByteArray_skip(d, n) ==
    IF ~(d.type_length > 0) THEN Call(d, Panic, <<>>)
    ELSE IF ~d.data_set THEN Call(d, Panic, <<>>)
    ELSE FixedLenByteArray_skip_loop(d, 1, Min(n, d.num_values))

skip(t, d, n, overflow_checks) ==
    CASE t = "BOOLEAN" -> bool_skip(d, n)
      [] t = "INT96" -> Int96_skip(d, n, overflow_checks)
      [] t = "BYTE_ARRAY" -> ByteArray_skip(d, n)
      [] t = "FIXED_LEN_BYTE_ARRAY" -> FixedLenByteArray_skip(d, n)
      [] OTHER -> raw_skip(t, d, n, overflow_checks)

(***************************************************************************)
(* The cursor state machine: a decoder of one physical type is built,      *)
(* armed with set_data on the page of bytes the caller holds (`page`), and *)
(* driven by decode and skip calls; set_data may re-arm it at any time.    *)
(* `last`                                                                  *)
(* records the last call: its kind, its argument (num_values of set_data,  *)
(* buffer length of decode, count of skip), its result, the cursor fields  *)
(* at its entry and the caller's output buffer after it.  An abort ends    *)
(* the session.                                                            *)
(***************************************************************************)
TypeLengths(t) == IF t = "FIXED_LEN_BYTE_ARRAY" THEN 0..MaxTypeLen ELSE {-1}

\* bytes one value of a fixed-width type takes on the wire
WireSize(t) == IF t = "INT96" THEN 12 ELSE size_of(t)

\* the buffers a caller arms the cursor with
RawBuffers(t) ==
    IF t \in {"BOOLEAN", "BYTE_ARRAY", "FIXED_LEN_BYTE_ARRAY"}
    THEN SeqsUpTo(ByteAlphabet, MaxBuf)
    ELSE {[i \in 1..n |-> b] : n \in 0..(WireSize(t) * MaxVals + 1),
                               b \in ByteAlphabet}

NoCall ==
    [op |-> "none", req |-> 0, res |-> Ok(0), start0 |-> 0,
     num_values0 |-> 0, pos0 |-> 0, out |-> <<>>]

Record(op, req, d0, c) ==
    [op |-> op, req |-> req, res |-> c.res, start0 |-> d0.start,
     num_values0 |-> d0.num_values, pos0 |-> d0.bit_reader.pos,
     out |-> c.out]

RtOff == [phase |-> "off", batch |-> <<>>]
SlcOff == [fn |-> "off"]
BsOff == [pc |-> "off"]
AppOff == [fn |-> "off"]

Running == last.res.kind # "Panic"

InitCodec ==
    /\ app = AppOff
    /\ ty \in PhysicalTypes
    /\ \E tl \in TypeLengths(ty) : decoder = PlainDecoderDetails_new(tl)
    /\ last = NoCall
    /\ page \in RawBuffers(ty)
    /\ rt = RtOff
    /\ slc = SlcOff
    /\ bs = BsOff

SetData ==
    /\ Running
    /\ \E n \in 0..MaxVals :
         /\ decoder' = set_data(ty, decoder, page, n)
         /\ last' = [NoCall EXCEPT !.op = "set_data", !.req = n]
    /\ UNCHANGED <<ty, page, rt, slc, bs, app>>

Decode ==
    /\ Running
    /\ \E n \in 0..MaxReq :
         LET c == decode(ty, DefaultBuffer(ty, n), decoder)
         IN /\ decoder' = c.dec
            /\ last' = Record("decode", n, decoder, c)
    /\ UNCHANGED <<ty, page, rt, slc, bs, app>>

Skip ==
    /\ Running
    /\ \E n \in 0..MaxReq, overflow_checks \in BOOLEAN :
         LET c == skip(ty, decoder, n, overflow_checks)
         IN /\ decoder' = c.dec
            /\ last' = Record("skip", n, decoder, c)
    /\ UNCHANGED <<ty, page, rt, slc, bs, app>>

Next == SetData \/ Decode \/ Skip

Spec == InitCodec /\ [][Next]_vars

(***************************************************************************)
(* ParquetValueType::encode.  The sink is a growing byte vector (writes    *)
(* cannot fail); an encode call leaves the bytes written so far and Ok, or *)
(* an abort.                                                               *)
(***************************************************************************)
Encoded(r, bytes) == [res |-> r, bytes |-> bytes]

\* BitWriter after put_value(v as u64, 1) for each value, flushed: the bits
\* packed LSB first, the last byte padded with zero bits
BitWriter_bytes(values) ==
    LET n == Len(values)
        bit(i) == IF i <= n /\ values[i] THEN 1 ELSE 0
    IN [j \in 1..((n + 7) \div 8) |->
          bit(8 * j - 7) + 2 * bit(8 * j - 6) + 4 * bit(8 * j - 5)
          + 8 * bit(8 * j - 4) + 16 * bit(8 * j - 3) + 32 * bit(8 * j - 2)
          + 64 * bit(8 * j - 1) + 128 * bit(8 * j)]

bool_encode(values) == Encoded(Ok(0), BitWriter_bytes(values))

\* the memory of a slice of fixed-width values, written in one piece
RECURSIVE raw_encode_bytes(_)
raw_encode_bytes(values) ==
    IF values = <<>> THEN <<>>
    ELSE Head(values) \o raw_encode_bytes(Tail(values))

raw_encode(values) == Encoded(Ok(0), raw_encode_bytes(values))

\* a variant that writes the day word first
Int96_as_bytes_day_first(v) ==
    u32_to_le_bytes(v[3]) \o u32_to_le_bytes(v[1]) \o u32_to_le_bytes(v[2])

\* SliceAsBytes::slice_as_bytes(value.data()) of one Int96: the memory of
\* its three u32 words
Int96_as_bytes(v) ==
    u32_to_le_bytes(v[1]) \o u32_to_le_bytes(v[2]) \o u32_to_le_bytes(v[3])

RECURSIVE Int96_encode_bytes(_)
Int96_encode_bytes(values) ==
    IF values = <<>> THEN <<>>
    ELSE Int96_as_bytes(Head(values)) \o Int96_encode_bytes(Tail(values))

Int96_encode(values) == Encoded(Ok(0), Int96_encode_bytes(values))

\* value.len() / value.data() abort on an unset ByteArray
RECURSIVE ByteArray_encode_loop(_, _)
ByteArray_encode_loop(values, sink) ==
    IF values = <<>> THEN Encoded(Ok(0), sink)
    ELSE LET value == Head(values)
         IN IF ~value.set THEN Encoded(Panic, sink)
            ELSE ByteArray_encode_loop(
                     Tail(values),
                     sink \o u32_to_le_bytes(Len(value.bytes)) \o value.bytes)

ByteArray_encode(values) == ByteArray_encode_loop(values, <<>>)

RECURSIVE FixedLenByteArray_encode_loop(_, _)
FixedLenByteArray_encode_loop(values, sink) ==
    IF values = <<>> THEN Encoded(Ok(0), sink)
    ELSE LET value == Head(values)
         IN IF ~value.set THEN Encoded(Panic, sink)
            ELSE FixedLenByteArray_encode_loop(Tail(values),
                                               sink \o value.bytes)

FixedLenByteArray_encode(values) == FixedLenByteArray_encode_loop(values, <<>>)

encode(t, values) ==
    CASE t = "BOOLEAN" -> bool_encode(values)
      [] t = "INT96" -> Int96_encode(values)
      [] t = "BYTE_ARRAY" -> ByteArray_encode(values)
      [] t = "FIXED_LEN_BYTE_ARRAY" -> FixedLenByteArray_encode(values)
      [] OTHER -> raw_encode(values)

(***************************************************************************)
(* The round trip: a batch is encoded, the cursor is armed with the bytes  *)
(* written and the batch length, and a buffer of the batch's length is     *)
(* decoded.                                                                *)
(***************************************************************************)
\* memory images of fixed-width values: zero, all bits set (-1, a NaN),
\* only the top bit set (the minimum, -0.0), distinct bytes, and a NaN
\* with a payload
RawValues(t) ==
    {[i \in 1..size_of(t) |-> 0],
     [i \in 1..size_of(t) |-> 255],
     [i \in 1..size_of(t) |-> IF i = size_of(t) THEN 128 ELSE 0],
     [i \in 1..size_of(t) |-> i],
     [i \in 1..size_of(t) |->
        IF i = size_of(t) THEN 127 ELSE IF i = size_of(t) - 1 THEN 248 ELSE 1]}

Int96Words == {0, 16909060, 2147483647}

Int96Values == [1..3 -> Int96Words]

ValueBytes == {0, 255}

ByteArrayValues ==
    {ByteArray_new} \cup {ByteArray_from(b) : b \in SeqsUpTo(ValueBytes, MaxValueLen)}

Values(t) ==
    CASE t = "BOOLEAN" -> BOOLEAN
      [] t = "INT96" -> Int96Values
      [] t \in {"BYTE_ARRAY", "FIXED_LEN_BYTE_ARRAY"} -> ByteArrayValues
      [] OTHER -> RawValues(t)

Batches(t) ==
    SeqsUpTo(Values(t), IF t = "BOOLEAN" THEN 8 + MaxBatch ELSE MaxBatch)

InitRoundTrip ==
    /\ app = AppOff
    /\ ty \in PhysicalTypes
    /\ \E tl \in TypeLengths(ty) : decoder = PlainDecoderDetails_new(tl)
    /\ last = NoCall
    /\ page = <<>>
    /\ \E batch \in Batches(ty) : rt = [phase |-> "init", batch |-> batch]
    /\ slc = SlcOff
    /\ bs = BsOff

RT_Encode ==
    /\ rt.phase = "init"
    /\ LET e == encode(ty, rt.batch)
       IN /\ page' = e.bytes
          /\ rt' = [rt EXCEPT !.phase = IF e.res.kind = "Ok" THEN "encoded"
                                                             ELSE "aborted"]
    /\ UNCHANGED <<ty, decoder, last, slc, bs, app>>

RT_SetData ==
    /\ rt.phase = "encoded"
    /\ decoder' = set_data(ty, decoder, page, Len(rt.batch))
    /\ last' = [NoCall EXCEPT !.op = "set_data", !.req = Len(rt.batch)]
    /\ rt' = [rt EXCEPT !.phase = "armed"]
    /\ UNCHANGED <<ty, page, slc, bs, app>>

RT_Decode ==
    /\ rt.phase = "armed"
    /\ LET c == decode(ty, DefaultBuffer(ty, Len(rt.batch)), decoder)
       IN /\ decoder' = c.dec
          /\ last' = Record("decode", Len(rt.batch), decoder, c)
    /\ rt' = [rt EXCEPT !.phase = "decoded"]
    /\ UNCHANGED <<ty, page, slc, bs, app>>

NextRoundTrip == RT_Encode \/ RT_SetData \/ RT_Decode

SpecRoundTrip == InitRoundTrip /\ [][NextRoundTrip]_vars

(***************************************************************************)
(* Byte-slice helpers (parquet-variant utils).                             *)
(***************************************************************************)
USIZE_MAX == 2 ^ UsizeBits - 1

\* usize::checked_add
checked_add(a, b) ==
    IF a + b > USIZE_MAX THEN [some |-> FALSE, v |-> 0]
    ELSE [some |-> TRUE, v |-> a + b]

\* an ArrowError::InvalidArgumentError and the values its message carries
InvalidArgumentError(msg, lo, hi, len) ==
    [variant |-> "InvalidArgumentError", msg |-> msg, lo |-> lo, hi |-> hi,
     len |-> len]

NoError == [variant |-> "", msg |-> "", lo |-> 0, hi |-> 0, len |-> 0]

SliceOk(bytes) == [kind |-> "Ok", bytes |-> bytes, err |-> NoError]
SliceErr(e) == [kind |-> "Err", bytes |-> <<>>, err |-> e]

overflow_error(msg) ==
    InvalidArgumentError("Integer overflow computing " \o msg, 0, 0, 0)

\* a variant whose upper bound check is off by one
slice_from_slice_exclusive(bytes, lo, hi) ==
    IF lo <= hi /\ hi < Len(bytes) THEN SliceOk(SubSeq(bytes, lo + 1, hi))
    ELSE SliceErr(InvalidArgumentError("Tried to extract byte(s)", lo, hi,
                                       Len(bytes)))

\* slice_from_slice(bytes, lo..hi): bytes.get(lo..hi) or the error
slice_from_slice(bytes, lo, hi) ==
    IF lo <= hi /\ hi <= Len(bytes) THEN SliceOk(SubSeq(bytes, lo + 1, hi))
    ELSE SliceErr(InvalidArgumentError("Tried to extract byte(s)", lo, hi,
                                       Len(bytes)))

\* a variant that adds with wraparound
slice_from_slice_at_offset_wrapping(bytes, base_offset, lo, hi) ==
    slice_from_slice(bytes, (base_offset + lo) % (USIZE_MAX + 1),
                     (base_offset + hi) % (USIZE_MAX + 1))

slice_from_slice_at_offset(bytes, base_offset, lo, hi) ==
    LET start_byte == checked_add(base_offset, lo)
        end_byte == checked_add(base_offset, hi)
    IN IF ~start_byte.some THEN SliceErr(overflow_error("slice start"))
       ELSE IF ~end_byte.some THEN SliceErr(overflow_error("slice end"))
       ELSE slice_from_slice(bytes, start_byte.v, end_byte.v)

\* offsets near zero and near the top of the address space
Offsets == (0..(MaxSliceLen + 1)) \cup {USIZE_MAX - 1, USIZE_MAX}

SliceBytes == {0, 1}

NoSlice == SliceOk(<<>>)

InitSlice ==
    /\ app = AppOff
    /\ ty = "BYTE_ARRAY"
    /\ decoder = PlainDecoderDetails_new(-1)
    /\ last = NoCall
    /\ page = <<>>
    /\ rt = RtOff
    /\ bs = BsOff
    /\ \E fn \in {"slice_from_slice", "slice_from_slice_at_offset"},
          bytes \in SeqsUpTo(SliceBytes, MaxSliceLen),
          base \in Offsets, lo \in Offsets, hi \in Offsets :
         /\ fn = "slice_from_slice" => base = 0
         /\ slc = [fn |-> fn, bytes |-> bytes, base |-> base, lo |-> lo,
                   hi |-> hi, done |-> FALSE, result |-> NoSlice]

Call_slice_from_slice ==
    /\ slc.fn = "slice_from_slice"
    /\ ~slc.done
    /\ slc' = [slc EXCEPT !.done = TRUE,
                          !.result = slice_from_slice(slc.bytes, slc.lo, slc.hi)]
    /\ UNCHANGED <<ty, decoder, last, page, rt, bs, app>>

Call_slice_from_slice_at_offset ==
    /\ slc.fn = "slice_from_slice_at_offset"
    /\ ~slc.done
    /\ slc' = [slc EXCEPT !.done = TRUE,
                          !.result = slice_from_slice_at_offset(
                                         slc.bytes, slc.base, slc.lo, slc.hi)]
    /\ UNCHANGED <<ty, decoder, last, page, rt, bs, app>>

NextSlice == Call_slice_from_slice \/ Call_slice_from_slice_at_offset

SpecSlice == InitSlice /\ [][NextSlice]_vars

(***************************************************************************)
(* try_binary_search_range_by, one loop iteration per step.  The key       *)
(* extractor is a function from indices to Option<K>; `probed` lists the   *)
(* indices it was called with.                                             *)
(***************************************************************************)
SomeKey(k) == [some |-> TRUE, v |-> k]
NoneKey == [some |-> FALSE, v |-> 0]

Keys == 0..MaxKey

KeyExtractors == [0..(MaxIdx - 1) -> {NoneKey} \cup {SomeKey(k) : k \in Keys}]

\* key.cmp(target)
cmp(a, b) == IF a = b THEN "Equal" ELSE IF a > b THEN "Greater" ELSE "Less"

\* a variant that keeps the probed index in the range when the key is
\* smaller than the target
narrow_keeping_mid(start, end, mid, ord) ==
    IF ord = "Greater" THEN [start |-> start, end |-> mid]
    ELSE [start |-> mid, end |-> end]

\* a variant with the two halves exchanged
narrow_swapped(start, end, mid, ord) ==
    IF ord = "Greater" THEN [start |-> mid + 1, end |-> end]
    ELSE [start |-> start, end |-> mid]

\* the range left after a probe that did not match
narrow(start, end, mid, ord) ==
    IF ord = "Greater" THEN [start |-> start, end |-> mid]
    ELSE [start |-> mid + 1, end |-> end]

\* a variant that takes the default key where the extraction fails
key_of_or_default(key_extractor, mid) ==
    IF key_extractor[mid].some THEN key_extractor[mid] ELSE SomeKey(0)

\* key_extractor(mid)
key_of(key_extractor, mid) == key_extractor[mid]

Pending == [kind |-> "Pending", idx |-> 0]
ReturnNone == [kind |-> "None", idx |-> 0]
SomeOk(i) == [kind |-> "SomeOk", idx |-> i]
SomeErr(i) == [kind |-> "SomeErr", idx |-> i]

\* a variant that reports the upper end of the range left
not_found_at_end(start, end) == SomeErr(end)

\* the value returned once the loop has run out
not_found(start, end) == SomeErr(start)

InitSearch ==
    /\ app = AppOff
    /\ ty = "BYTE_ARRAY"
    /\ decoder = PlainDecoderDetails_new(-1)
    /\ last = NoCall
    /\ page = <<>>
    /\ rt = RtOff
    /\ slc = SlcOff
    /\ \E f \in KeyExtractors, s \in 0..MaxIdx, e \in 0..MaxIdx, t \in Keys :
         bs = [pc |-> "loop", key_extractor |-> f, target |-> t,
               start0 |-> s, end0 |-> e, start |-> s, end |-> e,
               probed |-> <<>>, result |-> Pending]

\* one iteration of `while start < end`
BS_Probe ==
    /\ bs.pc = "loop"
    /\ bs.start < bs.end
    /\ LET mid == bs.start + (bs.end - bs.start) \div 2
           key == key_of(bs.key_extractor, mid)
       IN IF ~key.some
          THEN bs' = [bs EXCEPT !.pc = "done", !.result = ReturnNone,
                                !.probed = Append(@, mid)]
          ELSE IF cmp(key.v, bs.target) = "Equal"
          THEN bs' = [bs EXCEPT !.pc = "done", !.result = SomeOk(mid),
                                !.probed = Append(@, mid)]
          ELSE LET r == narrow(bs.start, bs.end, mid, cmp(key.v, bs.target))
               IN bs' = [bs EXCEPT !.start = r.start, !.end = r.end,
                                   !.probed = Append(@, mid)]
    /\ UNCHANGED <<ty, decoder, last, page, rt, slc, app>>

\* the loop exit: Some(Err(start))
BS_Return ==
    /\ bs.pc = "loop"
    /\ ~(bs.start < bs.end)
    /\ bs' = [bs EXCEPT !.pc = "done", !.result = not_found(bs.start, bs.end)]
    /\ UNCHANGED <<ty, decoder, last, page, rt, slc, app>>

NextSearch == BS_Probe \/ BS_Return

SpecSearch == InitSearch /\ [][NextSearch]_vars

\* the search as a running call: a call that can take a step takes it
SpecSearchRun == SpecSearch /\ WF_vars(NextSearch)

(***************************************************************************)
(* Int96 at full width.  A u32 word is carried as its 4-byte               *)
(* little-endian image and an i32 / i64 as its 4 / 8-byte two's-complement *)
(* image, so that words with the top bit set and 64-bit wraparound are     *)
(* exact.  An Int96 is the sequence of its three words.                    *)
(***************************************************************************)
Zeros(n) == [i \in 1..n |-> 0]

\* the size-byte little-endian image of a small natural number
RECURSIVE le_bytes(_, _)
le_bytes(n, size) ==
    IF size = 0 THEN <<>>
    ELSE <<n % 256>> \o le_bytes(n \div 256, size - 1)

\* an i64 literal
i64(n) == le_bytes(n, 8)

\* the sign bit of a two's-complement image
is_negative(x) == x[Len(x)] >= 128

\* `w as i32` for a u32 w: the same bits
u32_as_i32(w) == w

\* `w as i64` for a u32 w: zero extension
u32_as_i64(w) == w \o Zeros(4)

\* a variant that extends the day as an unsigned word
i32_as_i64_zero_extended(d) == d \o Zeros(4)

\* `d as i64` for an i32 d: sign extension
i32_as_i64(d) == d \o [i \in 1..4 |-> IF is_negative(d) THEN 255 ELSE 0]

\* `x << 32` for an i64 x: the upper bits are shifted out
i64_shl_32(x) == Zeros(4) \o SubSeq(x, 1, 4)

RECURSIVE add_with_carry(_, _, _, _)
add_with_carry(x, y, i, carry) ==
    IF i > Len(x) THEN <<>>
    ELSE LET s == x[i] + y[i] + carry
         IN <<s % 256>> \o add_with_carry(x, y, i + 1, s \div 256)

\* i64::wrapping_add
wrapping_add(x, y) == add_with_carry(x, y, 1, 0)

\* i64::wrapping_neg
wrapping_neg(x) ==
    wrapping_add([i \in 1..Len(x) |-> 255 - x[i]], le_bytes(1, Len(x)))

\* x - y where the difference is known to fit
i64_sub(x, y) == wrapping_add(x, wrapping_neg(y))

RECURSIVE column(_, _, _, _)
column(x, y, k, i) ==
    IF i > k THEN 0 ELSE x[i] * y[k + 1 - i] + column(x, y, k, i + 1)

RECURSIVE mul_from(_, _, _, _)
mul_from(x, y, k, carry) ==
    IF k > Len(x) THEN <<>>
    ELSE LET s == column(x, y, k, 1) + carry
         IN <<s % 256>> \o mul_from(x, y, k + 1, s \div 256)

\* i64::wrapping_mul
wrapping_mul(x, y) == mul_from(x, y, 1, 0)

\* long division of one byte, bit by bit, with running remainder r
RECURSIVE div_bits(_, _, _, _, _)
div_bits(r, byte, d, bit, q) ==
    IF bit < 0 THEN [q |-> q, r |-> r]
    ELSE LET r1 == 2 * r + ((byte \div (2 ^ bit)) % 2)
         IN IF r1 >= d THEN div_bits(r1 - d, byte, d, bit - 1, 2 * q + 1)
            ELSE div_bits(r1, byte, d, bit - 1, 2 * q)

RECURSIVE udiv_from(_, _, _, _)
udiv_from(x, d, i, r) ==
    IF i = 0 THEN <<>>
    ELSE LET s == div_bits(r, x[i], d, 7, 0)
         IN udiv_from(x, d, i - 1, s.r) \o <<s.q>>

\* unsigned division of an image by a small positive divisor
udiv(x, d) == udiv_from(x, d, Len(x), 0)

\* i64 `/` by a positive literal: the quotient is truncated towards zero
i64_div(x, d) ==
    IF is_negative(x) THEN wrapping_neg(udiv(wrapping_neg(x), d))
    ELSE udiv(x, d)

\* Ord::cmp of two unsigned images of one size, from the top byte down
RECURSIVE cmp_from(_, _, _)
cmp_from(x, y, i) ==
    IF i = 0 THEN "Equal"
    ELSE IF x[i] < y[i] THEN "Less"
    ELSE IF x[i] > y[i] THEN "Greater"
    ELSE cmp_from(x, y, i - 1)

\* Ord::cmp of two signed integers of one size
signed_cmp(x, y) ==
    IF is_negative(x) /\ ~is_negative(y) THEN "Less"
    ELSE IF ~is_negative(x) /\ is_negative(y) THEN "Greater"
    ELSE cmp_from(x, y, Len(x))

JULIAN_DAY_OF_EPOCH == i64(2440588)
SECONDS_IN_DAY == i64(86400)
MILLISECONDS == i64(1000)
MICROSECONDS == i64(1000000)
NANOSECONDS == i64(1000000000)
MILLISECONDS_IN_DAY == wrapping_mul(SECONDS_IN_DAY, MILLISECONDS)
MICROSECONDS_IN_DAY == wrapping_mul(SECONDS_IN_DAY, MICROSECONDS)
NANOSECONDS_IN_DAY == wrapping_mul(SECONDS_IN_DAY, NANOSECONDS)

\* Int96::data
Int96_data(v) == v

Int96_get_days(v) == u32_as_i32(Int96_data(v)[3])

\* a variant that reads the upper word only
Int96_get_nanos_upper_word(v) == i64_shl_32(u32_as_i64(Int96_data(v)[2]))

Int96_get_nanos(v) ==
    wrapping_add(i64_shl_32(u32_as_i64(Int96_data(v)[2])),
                 u32_as_i64(Int96_data(v)[1]))

Int96_data_as_days_and_nanos(v) ==
    [day |-> Int96_get_days(v), nanos |-> Int96_get_nanos(v)]

\* (day as i64 - JULIAN_DAY_OF_EPOCH).wrapping_mul(per_day).wrapping_add(n)
Int96_since_epoch(day, per_day, n) ==
    wrapping_add(
        wrapping_mul(i64_sub(i32_as_i64(day), JULIAN_DAY_OF_EPOCH), per_day),
        n)

Int96_to_seconds(v) ==
    LET dn == Int96_data_as_days_and_nanos(v)
    IN Int96_since_epoch(dn.day, SECONDS_IN_DAY, i64_div(dn.nanos, 1000000000))

\* a variant that counts microseconds first and divides afterwards
Int96_to_millis_via_micros(v) ==
    LET dn == Int96_data_as_days_and_nanos(v)
    IN i64_div(Int96_since_epoch(dn.day, MICROSECONDS_IN_DAY,
                                 i64_div(dn.nanos, 1000)),
               1000)

Int96_to_millis(v) ==
    LET dn == Int96_data_as_days_and_nanos(v)
    IN Int96_since_epoch(dn.day, MILLISECONDS_IN_DAY, i64_div(dn.nanos, 1000000))

Int96_to_micros(v) ==
    LET dn == Int96_data_as_days_and_nanos(v)
    IN Int96_since_epoch(dn.day, MICROSECONDS_IN_DAY, i64_div(dn.nanos, 1000))

Int96_to_nanos(v) ==
    LET dn == Int96_data_as_days_and_nanos(v)
    IN Int96_since_epoch(dn.day, NANOSECONDS_IN_DAY, dn.nanos)

\* a variant that orders by the nanoseconds first
Int96_cmp_nanos_first(a, b) ==
    LET n == signed_cmp(Int96_get_nanos(a), Int96_get_nanos(b))
    IN IF n = "Equal" THEN signed_cmp(Int96_get_days(a), Int96_get_days(b))
       ELSE n

\* Ord for Int96
\* the derived PartialEq / Eq of Int96: the word arrays are equal
Int96_eq(a, b) == Int96_data(a) = Int96_data(b)

Int96_cmp(a, b) ==
    LET ord == signed_cmp(Int96_get_days(a), Int96_get_days(b))
    IN IF ord = "Equal"
       THEN signed_cmp(Int96_get_nanos(a), Int96_get_nanos(b))
       ELSE ord

\* words 0, 1 and 2 the Int96 values are built from: zero, one, the ends of
\* the signed and unsigned ranges, the last nanosecond of a day
\* (86399999999999 = 0x4E94_914EFFFF), 10^9, the epoch day and the next
Word0s ==
    {<<0, 0, 0, 0>>, <<1, 0, 0, 0>>, <<255, 255, 78, 145>>,
     <<0, 202, 154, 59>>, <<255, 255, 255, 255>>}
Word1s ==
    {<<0, 0, 0, 0>>, <<1, 0, 0, 0>>, <<148, 78, 0, 0>>,
     <<255, 255, 255, 127>>, <<0, 0, 0, 128>>, <<255, 255, 255, 255>>}
Word2s ==
    {<<0, 0, 0, 0>>, <<140, 61, 37, 0>>, <<141, 61, 37, 0>>,
     <<255, 255, 255, 127>>, <<0, 0, 0, 128>>, <<255, 255, 255, 255>>}

Int96s == {<<w0, w1, w2>> : w0 \in Word0s, w1 \in Word1s, w2 \in Word2s}

Int96Conversions == {"to_seconds", "to_millis", "to_micros", "to_nanos"}

InitInt96 ==
    /\ ty = "INT96"
    /\ decoder = PlainDecoderDetails_new(-1)
    /\ last = NoCall
    /\ page = <<>>
    /\ rt = RtOff
    /\ slc = SlcOff
    /\ bs = BsOff
    /\ \E fn \in Int96Conversions \cup {"cmp"}, a \in Int96s, b \in Int96s :
         /\ fn # "cmp" => b = a
         /\ app = [fn |-> fn, a |-> a, b |-> b, done |-> FALSE,
                   result |-> <<>>]

Call_Int96_cmp ==
    /\ app.fn = "cmp"
    /\ ~app.done
    /\ app' = [app EXCEPT !.done = TRUE, !.result = Int96_cmp(app.a, app.b)]
    /\ UNCHANGED <<ty, decoder, last, page, rt, slc, bs>>

Call_Int96_to_seconds ==
    /\ app.fn = "to_seconds"
    /\ ~app.done
    /\ app' = [app EXCEPT !.done = TRUE, !.result = Int96_to_seconds(app.a)]
    /\ UNCHANGED <<ty, decoder, last, page, rt, slc, bs>>

Call_Int96_to_millis ==
    /\ app.fn = "to_millis"
    /\ ~app.done
    /\ app' = [app EXCEPT !.done = TRUE, !.result = Int96_to_millis(app.a)]
    /\ UNCHANGED <<ty, decoder, last, page, rt, slc, bs>>

Call_Int96_to_micros ==
    /\ app.fn = "to_micros"
    /\ ~app.done
    /\ app' = [app EXCEPT !.done = TRUE, !.result = Int96_to_micros(app.a)]
    /\ UNCHANGED <<ty, decoder, last, page, rt, slc, bs>>

Call_Int96_to_nanos ==
    /\ app.fn = "to_nanos"
    /\ ~app.done
    /\ app' = [app EXCEPT !.done = TRUE, !.result = Int96_to_nanos(app.a)]
    /\ UNCHANGED <<ty, decoder, last, page, rt, slc, bs>>

NextInt96 ==
    \/ Call_Int96_cmp
    \/ Call_Int96_to_seconds
    \/ Call_Int96_to_millis
    \/ Call_Int96_to_micros
    \/ Call_Int96_to_nanos

SpecInt96 == InitInt96 /\ [][NextInt96]_vars

(***************************************************************************)
(* ByteArray as a value: construction, access, equality and order.  A      *)
(* call either returns a value or aborts (assert! / expect).               *)
(***************************************************************************)
\* longest byte string of the ByteArray values compared and accessed
MaxOrdLen == 3

Returned(v) == [kind |-> "Value", v |-> v]
Aborted == [kind |-> "Panic", v |-> <<>>]
NotCalled == [kind |-> "none", v |-> <<>>]

\* ByteArray::len
ByteArray_len(a) == IF ~a.set THEN Aborted ELSE Returned(Len(a.bytes))

\* ByteArray::is_empty
ByteArray_is_empty(a) ==
    IF ByteArray_len(a) = Aborted THEN Aborted
    ELSE Returned(ByteArray_len(a).v = 0)

\* a variant that yields the empty slice when no data is set
ByteArray_data_or_empty(a) ==
    IF ~a.set THEN Returned(<<>>) ELSE Returned(a.bytes)

\* ByteArray::data
ByteArray_data(a) == IF ~a.set THEN Aborted ELSE Returned(a.bytes)

\* ByteArray::set_data
ByteArray_set_data(a, data) == [a EXCEPT !.set = TRUE, !.bytes = data]

\* ByteArray::slice
ByteArray_slice(a, start, len) ==
    IF ~a.set THEN Aborted
    ELSE IF start + len > Len(a.bytes) THEN Aborted
    ELSE Returned(ByteArray_from(Slice(a.bytes, start, start + len)))

\* HeapSize for ByteArray
ByteArray_heap_size(a) == IF a.set THEN Returned(Len(a.bytes)) ELSE Returned(0)

\* PartialEq for ByteArray
ByteArray_eq(a, b) ==
    IF a.set /\ b.set THEN a.bytes = b.bytes
    ELSE IF ~a.set /\ ~b.set THEN TRUE
    ELSE FALSE

\* PartialOrd of two byte slices: the first differing byte decides, else
\* the shorter one is the smaller
RECURSIVE slice_partial_cmp(_, _)
slice_partial_cmp(x, y) ==
    IF x = <<>> /\ y = <<>> THEN "Equal"
    ELSE IF x = <<>> THEN "Less"
    ELSE IF y = <<>> THEN "Greater"
    ELSE IF Head(x) < Head(y) THEN "Less"
    ELSE IF Head(x) > Head(y) THEN "Greater"
    ELSE slice_partial_cmp(Tail(x), Tail(y))

\* a variant that orders the set values by length first
ByteArray_partial_cmp_by_length(a, b) ==
    IF ~a.set /\ ~b.set THEN "Equal"
    ELSE IF ~a.set THEN "Less"
    ELSE IF ~b.set THEN "Greater"
    ELSE IF Len(a.bytes) < Len(b.bytes) THEN "Less"
    ELSE IF Len(a.bytes) > Len(b.bytes) THEN "Greater"
    ELSE slice_partial_cmp(a.bytes, b.bytes)

\* PartialOrd for ByteArray (always Some)
ByteArray_partial_cmp(a, b) ==
    IF ~a.set /\ ~b.set THEN "Equal"
    ELSE IF ~a.set THEN "Less"
    ELSE IF ~b.set THEN "Greater"
    ELSE slice_partial_cmp(a.bytes, b.bytes)

OrdBytes == {1, 2, 3, 4}

ByteArrays ==
    {ByteArray_new} \cup {ByteArray_from(b) : b \in SeqsUpTo(OrdBytes, MaxOrdLen)}

ByteArrayUnary == {"len", "is_empty", "data", "heap_size"}
ByteArrayBinary == {"eq", "partial_cmp", "set_data"}

\* app.a is the receiver, app.b the other operand (for set_data, the value
\* whose bytes are handed over); app.a0 keeps the receiver as it started
InitByteArray ==
    /\ ty = "BYTE_ARRAY"
    /\ decoder = PlainDecoderDetails_new(-1)
    /\ last = NoCall
    /\ page = <<>>
    /\ rt = RtOff
    /\ slc = SlcOff
    /\ bs = BsOff
    /\ \E fn \in ByteArrayUnary \cup ByteArrayBinary \cup {"slice"},
          a \in ByteArrays, b \in ByteArrays,
          start \in 0..(MaxOrdLen + 1), len \in 0..(MaxOrdLen + 1) :
         /\ fn \notin ByteArrayBinary => b = a
         /\ fn = "set_data" => b.set
         /\ fn # "slice" => (start = 0 /\ len = 0)
         /\ app = [fn |-> fn, a |-> a, a0 |-> a, b |-> b, start |-> start,
                   len |-> len, prior |-> "none", done |-> FALSE,
                   result |-> NotCalled]

Call_ByteArray_len ==
    /\ app.fn = "len"
    /\ ~app.done
    /\ app' = [app EXCEPT !.done = TRUE, !.result = ByteArray_len(app.a)]
    /\ UNCHANGED <<ty, decoder, last, page, rt, slc, bs>>

Call_ByteArray_is_empty ==
    /\ app.fn = "is_empty"
    /\ ~app.done
    /\ app' = [app EXCEPT !.done = TRUE, !.result = ByteArray_is_empty(app.a)]
    /\ UNCHANGED <<ty, decoder, last, page, rt, slc, bs>>

Call_ByteArray_data ==
    /\ app.fn = "data"
    /\ ~app.done
    /\ app' = [app EXCEPT !.done = TRUE, !.result = ByteArray_data(app.a)]
    /\ UNCHANGED <<ty, decoder, last, page, rt, slc, bs>>

\* set_data; the caller goes on to read the value back with data()
Call_ByteArray_set_data ==
    /\ app.fn = "set_data"
    /\ ~app.done
    /\ app' = [app EXCEPT !.a = ByteArray_set_data(app.a, app.b.bytes),
                          !.prior = "set_data", !.fn = "data"]
    /\ UNCHANGED <<ty, decoder, last, page, rt, slc, bs>>

Call_ByteArray_slice ==
    /\ app.fn = "slice"
    /\ ~app.done
    /\ app' = [app EXCEPT !.done = TRUE,
                          !.result = ByteArray_slice(app.a, app.start, app.len)]
    /\ UNCHANGED <<ty, decoder, last, page, rt, slc, bs>>

Call_ByteArray_heap_size ==
    /\ app.fn = "heap_size"
    /\ ~app.done
    /\ app' = [app EXCEPT !.done = TRUE, !.result = ByteArray_heap_size(app.a)]
    /\ UNCHANGED <<ty, decoder, last, page, rt, slc, bs>>

Call_ByteArray_eq ==
    /\ app.fn = "eq"
    /\ ~app.done
    /\ app' = [app EXCEPT !.done = TRUE,
                          !.result = Returned(ByteArray_eq(app.a, app.b))]
    /\ UNCHANGED <<ty, decoder, last, page, rt, slc, bs>>

Call_ByteArray_partial_cmp ==
    /\ app.fn = "partial_cmp"
    /\ ~app.done
    /\ app' = [app EXCEPT !.done = TRUE,
                          !.result = Returned(ByteArray_partial_cmp(app.a, app.b))]
    /\ UNCHANGED <<ty, decoder, last, page, rt, slc, bs>>

NextByteArray ==
    \/ Call_ByteArray_len
    \/ Call_ByteArray_is_empty
    \/ Call_ByteArray_data
    \/ Call_ByteArray_set_data
    \/ Call_ByteArray_slice
    \/ Call_ByteArray_heap_size
    \/ Call_ByteArray_eq
    \/ Call_ByteArray_partial_cmp

SpecByteArray == InitByteArray /\ [][NextByteArray]_vars

(***************************************************************************)
(* Decimal: the raw parts of a decimal value (unscaled bytes, precision,   *)
(* scale) in one of three backing variants.  The integer handed to         *)
(* from_i32 / from_i64 is its 4 / 8-byte two's-complement little-endian    *)
(* image, as for Int96; precision and scale are small i32 values.          *)
(***************************************************************************)
\* a variant that keeps the in-memory (little-endian) byte order
to_le_bytes(x) == x

\* i32::to_be_bytes / i64::to_be_bytes: most significant byte first
to_be_bytes(x) == [i \in 1..Len(x) |-> x[Len(x) + 1 - i]]

\* Decimal::from_i32
Decimal_from_i32(value, precision, scale) ==
    [variant |-> "Int32", value |-> to_be_bytes(value),
     precision |-> precision, scale |-> scale]

\* Decimal::from_i64
Decimal_from_i64(value, precision, scale) ==
    [variant |-> "Int64", value |-> to_be_bytes(value),
     precision |-> precision, scale |-> scale]

\* Decimal::from_bytes
Decimal_from_bytes(value, precision, scale) ==
    [variant |-> "Bytes", value |-> value,
     precision |-> precision, scale |-> scale]

\* Default for Decimal
Decimal_default == Decimal_from_i32(le_bytes(0, 4), 0, 0)

\* Decimal::data
Decimal_data(d) ==
    IF d.variant = "Bytes" THEN ByteArray_data(d.value) ELSE Returned(d.value)

\* Decimal::precision
Decimal_precision(d) == d.precision

\* Decimal::scale
Decimal_scale(d) == d.scale

\* PartialEq for Decimal; && evaluates its right operand only when the left
\* one is true, so data() is reached only with equal precision and scale
Decimal_eq(a, b) ==
    IF Decimal_precision(a) # Decimal_precision(b) THEN Returned(FALSE)
    ELSE IF Decimal_scale(a) # Decimal_scale(b) THEN Returned(FALSE)
    ELSE IF Decimal_data(a) = Aborted \/ Decimal_data(b) = Aborted THEN Aborted
    ELSE Returned(Decimal_data(a).v = Decimal_data(b).v)

\* the integers handed to from_i32: 0, 3, -1, 3 * 2^24
DecimalI32s ==
    {le_bytes(0, 4), le_bytes(3, 4), <<255, 255, 255, 255>>, <<0, 0, 0, 3>>}

\* the integers handed to from_i64: the same values as i64, and 3 * 2^32
DecimalI64s ==
    {i32_as_i64(v) : v \in DecimalI32s} \cup {<<0, 0, 0, 0, 3, 0, 0, 0>>}

\* the byte arrays handed to from_bytes
DecimalByteArrays ==
    {ByteArray_new, ByteArray_from(<<>>), ByteArray_from(<<0, 0, 0, 3>>),
     ByteArray_from(<<0, 0, 0, 0>>), ByteArray_from(<<3, 0, 0, 0>>),
     ByteArray_from(<<255, 255, 255, 255>>),
     ByteArray_from(<<0, 0, 0, 0, 0, 0, 0, 3>>)}

DecimalPrecisions == {0, 5}
DecimalScales == {0, 2}

\* a constructor call: the constructor and its arguments (the integer in
\* `value` or the byte array in `bytes`)
DecimalCalls ==
    {[ctor |-> "default", value |-> <<>>, bytes |-> ByteArray_new,
      precision |-> 0, scale |-> 0]}
    \cup [ctor : {"from_i32"}, value : DecimalI32s, bytes : {ByteArray_new},
          precision : DecimalPrecisions, scale : DecimalScales]
    \cup [ctor : {"from_i64"}, value : DecimalI64s, bytes : {ByteArray_new},
          precision : DecimalPrecisions, scale : DecimalScales]
    \cup [ctor : {"from_bytes"}, value : {<<>>}, bytes : DecimalByteArrays,
          precision : DecimalPrecisions, scale : DecimalScales]

\* the value a constructor call returns
Decimal_construct(c) ==
    CASE c.ctor = "default" -> Decimal_default
      [] c.ctor = "from_i32" -> Decimal_from_i32(c.value, c.precision, c.scale)
      [] c.ctor = "from_i64" -> Decimal_from_i64(c.value, c.precision, c.scale)
      [] c.ctor = "from_bytes" -> Decimal_from_bytes(c.bytes, c.precision, c.scale)

NoDecimal == [variant |-> "none", value |-> <<>>, precision |-> 0, scale |-> 0]

\* app.ca and app.cb are the two constructor calls, app.a and app.b the
\* values they returned
InitDecimal ==
    /\ ty = "FIXED_LEN_BYTE_ARRAY"
    /\ decoder = PlainDecoderDetails_new(-1)
    /\ last = NoCall
    /\ page = <<>>
    /\ rt = RtOff
    /\ slc = SlcOff
    /\ bs = BsOff
    /\ \E ca \in DecimalCalls, cb \in DecimalCalls, fn \in {"eq", "data"} :
         /\ fn = "data" => cb = ca
         /\ app = [fn |-> fn, ca |-> ca, cb |-> cb, a |-> NoDecimal,
                   b |-> NoDecimal, built |-> FALSE, done |-> FALSE,
                   result |-> NotCalled]

Call_Decimal_construct ==
    /\ app.fn \in {"eq", "data"}
    /\ ~app.built
    /\ app' = [app EXCEPT !.a = Decimal_construct(app.ca),
                          !.b = Decimal_construct(app.cb), !.built = TRUE]
    /\ UNCHANGED <<ty, decoder, last, page, rt, slc, bs>>

Call_Decimal_data ==
    /\ app.fn = "data"
    /\ app.built
    /\ ~app.done
    /\ app' = [app EXCEPT !.done = TRUE, !.result = Decimal_data(app.a)]
    /\ UNCHANGED <<ty, decoder, last, page, rt, slc, bs>>

Call_Decimal_eq ==
    /\ app.fn = "eq"
    /\ app.built
    /\ ~app.done
    /\ app' = [app EXCEPT !.done = TRUE, !.result = Decimal_eq(app.a, app.b)]
    /\ UNCHANGED <<ty, decoder, last, page, rt, slc, bs>>

NextDecimal ==
    \/ Call_Decimal_construct
    \/ Call_Decimal_data
    \/ Call_Decimal_eq

SpecDecimal == InitDecimal /\ [][NextDecimal]_vars

(***************************************************************************)
(* Per-value conversions of ParquetValueType: as_i64, as_u64 and           *)
(* variable_length_bytes.  An i64 / u64 is its 8-byte little-endian        *)
(* image.                                                                  *)
(***************************************************************************)
OkValue(v) == [kind |-> "Ok", v |-> v]

\* general_err!(msg): ParquetError::General
general_err(msg) == [kind |-> "General", v |-> msg]

Some_i64(n) == [some |-> TRUE, v |-> n]
None_i64 == [some |-> FALSE, v |-> 0]

\* `*self as i64` for a bool: false is 0, true is 1
bool_as_i64(b) == IF b THEN i64(1) ELSE i64(0)

\* `x as u64` for an i64 x: the same bits
i64_as_u64(x) == x

\* the trait's default as_i64, kept by Int96, ByteArray and
\* FixedLenByteArray
ParquetValueType_as_i64(value) == general_err("Type cannot be converted to i64")

\* a variant that converts floating-point values by their bits
as_i64_casting_floats(t, value) ==
    CASE t = "BOOLEAN" -> OkValue(bool_as_i64(value))
      [] t = "INT32" -> OkValue(i32_as_i64(value))
      [] t = "INT64" -> OkValue(value)
      [] t = "FLOAT" -> OkValue(i32_as_i64(value))
      [] t = "DOUBLE" -> OkValue(value)
      [] OTHER -> ParquetValueType_as_i64(value)

\* as_i64 of each implementation
as_i64(t, value) ==
    CASE t = "BOOLEAN" -> OkValue(bool_as_i64(value))
      [] t = "INT32" -> OkValue(i32_as_i64(value))
      [] t = "INT64" -> OkValue(value)
      [] t = "FLOAT" -> general_err("Type cannot be converted to i64")
      [] t = "DOUBLE" -> general_err("Type cannot be converted to i64")
      [] OTHER -> ParquetValueType_as_i64(value)

\* a variant that refuses the negative values
as_u64_checked(t, value) ==
    LET r == as_i64(t, value)
    IN IF r.kind = "Ok" /\ ~is_negative(r.v) THEN OkValue(i64_as_u64(r.v))
       ELSE general_err("Type cannot be converted to u64")

\* the trait's default as_u64, which no implementation overrides
as_u64(t, value) ==
    LET r == as_i64(t, value)
    IN IF r.kind = "Ok" THEN OkValue(i64_as_u64(r.v))
       ELSE general_err("Type cannot be converted to u64")

\* the trait's default variable_length_bytes
ParquetValueType_variable_length_bytes(values) == Returned(None_i64)

\* values.iter().map(|x| x.len() as i64).sum(); len() aborts on a
\* ByteArray that holds no data
RECURSIVE ByteArray_variable_length_sum(_, _)
ByteArray_variable_length_sum(values, sum) ==
    IF values = <<>> THEN Returned(Some_i64(sum))
    ELSE IF ByteArray_len(Head(values)) = Aborted THEN Aborted
    ELSE ByteArray_variable_length_sum(Tail(values),
                                       sum + ByteArray_len(Head(values)).v)

\* variable_length_bytes of ByteArray
ByteArray_variable_length_bytes(values) ==
    ByteArray_variable_length_sum(values, 0)

\* a variant that sums the lengths for both byte-array types
variable_length_bytes_of_byte_arrays(t, values) ==
    CASE t \in {"BYTE_ARRAY", "FIXED_LEN_BYTE_ARRAY"} ->
           ByteArray_variable_length_bytes(values)
      [] OTHER -> ParquetValueType_variable_length_bytes(values)

\* variable_length_bytes of each implementation: only ByteArray overrides
\* the default
variable_length_bytes(t, values) ==
    CASE t = "BYTE_ARRAY" -> ByteArray_variable_length_bytes(values)
      [] OTHER -> ParquetValueType_variable_length_bytes(values)

\* app.value is the receiver of as_i64 / as_u64, app.values the slice
\* handed to variable_length_bytes
InitValue ==
    /\ ty \in PhysicalTypes
    /\ decoder = PlainDecoderDetails_new(-1)
    /\ last = NoCall
    /\ page = <<>>
    /\ rt = RtOff
    /\ slc = SlcOff
    /\ bs = BsOff
    /\ \/ \E fn \in {"as_i64", "as_u64"}, value \in Values(ty) :
            app = [fn |-> fn, value |-> <<value>>, done |-> FALSE,
                   result |-> NotCalled]
       \/ \E values \in Batches(ty) :
            app = [fn |-> "variable_length_bytes", value |-> values,
                   done |-> FALSE, result |-> NotCalled]

Call_as_i64 ==
    /\ app.fn = "as_i64"
    /\ ~app.done
    /\ app' = [app EXCEPT !.done = TRUE, !.result = as_i64(ty, app.value[1])]
    /\ UNCHANGED <<ty, decoder, last, page, rt, slc, bs>>

Call_as_u64 ==
    /\ app.fn = "as_u64"
    /\ ~app.done
    /\ app' = [app EXCEPT !.done = TRUE, !.result = as_u64(ty, app.value[1])]
    /\ UNCHANGED <<ty, decoder, last, page, rt, slc, bs>>

Call_variable_length_bytes ==
    /\ app.fn = "variable_length_bytes"
    /\ ~app.done
    /\ app' = [app EXCEPT !.done = TRUE,
                          !.result = variable_length_bytes(ty, app.value)]
    /\ UNCHANGED <<ty, decoder, last, page, rt, slc, bs>>

NextValue ==
    \/ Call_as_i64
    \/ Call_as_u64
    \/ Call_variable_length_bytes

SpecValue == InitValue /\ [][NextValue]_vars

(***************************************************************************)
(* Int96 as a value: construction from a vector, set_data, data and        *)
(* as_bytes.  The words are numbers here, so that as_bytes has a byte      *)
(* order to get right.                                                     *)
(***************************************************************************)
\* longest vector handed to Int96::from
MaxVecLen == 4

\* Int96::new
Int96_new == <<0, 0, 0>>

\* a variant that stores the words in reverse
Int96_set_data_reversed(v, elem0, elem1, elem2) == <<elem2, elem1, elem0>>

\* Int96::set_data
Int96_set_data(v, elem0, elem1, elem2) == <<elem0, elem1, elem2>>

\* From<Vec<u32>> for Int96; assert_eq!(buf.len(), 3) aborts
Int96_from(buf) ==
    IF Len(buf) # 3 THEN Aborted
    ELSE Returned(Int96_set_data(Int96_new, buf[1], buf[2], buf[3]))

\* app.buf is the vector handed to from, or the three words handed to
\* set_data; app.a is the receiver
InitInt96Data ==
    /\ ty = "INT96"
    /\ decoder = PlainDecoderDetails_new(-1)
    /\ last = NoCall
    /\ page = <<>>
    /\ rt = RtOff
    /\ slc = SlcOff
    /\ bs = BsOff
    /\ \E fn \in {"from", "set_data", "as_bytes"},
          buf \in SeqsUpTo(Int96Words, MaxVecLen), a \in Int96Values :
         /\ fn = "from" => a = Int96_new
         /\ fn = "set_data" => Len(buf) = 3
         /\ fn = "as_bytes" => buf = <<>>
         /\ app = [fn |-> fn, buf |-> buf, a |-> a, prior |-> "none",
                   done |-> FALSE, result |-> NotCalled]

\* Int96::from(buf); the caller goes on to read the words with data()
Call_Int96_from ==
    /\ app.fn = "from"
    /\ ~app.done
    /\ LET r == Int96_from(app.buf)
       IN app' = IF r = Aborted
                 THEN [app EXCEPT !.done = TRUE, !.result = Aborted]
                 ELSE [app EXCEPT !.a = r.v, !.prior = "from", !.fn = "data"]
    /\ UNCHANGED <<ty, decoder, last, page, rt, slc, bs>>

\* set_data; the caller goes on to read the words with data()
Call_Int96_set_data ==
    /\ app.fn = "set_data"
    /\ ~app.done
    /\ app' = [app EXCEPT
                 !.a = Int96_set_data(app.a, app.buf[1], app.buf[2], app.buf[3]),
                 !.prior = "set_data", !.fn = "data"]
    /\ UNCHANGED <<ty, decoder, last, page, rt, slc, bs>>

Call_Int96_data ==
    /\ app.fn = "data"
    /\ ~app.done
    /\ app' = [app EXCEPT !.done = TRUE, !.result = Returned(Int96_data(app.a))]
    /\ UNCHANGED <<ty, decoder, last, page, rt, slc, bs>>

Call_Int96_as_bytes ==
    /\ app.fn = "as_bytes"
    /\ ~app.done
    /\ app' = [app EXCEPT !.done = TRUE,
                          !.result = Returned(Int96_as_bytes(app.a))]
    /\ UNCHANGED <<ty, decoder, last, page, rt, slc, bs>>

NextInt96Data ==
    \/ Call_Int96_from
    \/ Call_Int96_set_data
    \/ Call_Int96_data
    \/ Call_Int96_as_bytes

SpecInt96Data == InitInt96Data /\ [][NextInt96Data]_vars

(***************************************************************************)
(* A decode session with its history: the cursor machine above, where      *)
(* `app` keeps the num_values of the latest set_data and the sum of the    *)
(* counts that decode and skip have returned since.                        *)
(***************************************************************************)
Returned_count(c) == IF c.res.kind = "Ok" THEN c.res.n ELSE 0

InitSession ==
    /\ ty \in PhysicalTypes
    /\ \E tl \in TypeLengths(ty) : decoder = PlainDecoderDetails_new(tl)
    /\ last = NoCall
    /\ page \in RawBuffers(ty)
    /\ rt = RtOff
    /\ slc = SlcOff
    /\ bs = BsOff
    /\ app = [fn |-> "session", n |-> 0, returned |-> 0]

Session_SetData ==
    /\ Running
    /\ \E n \in 0..MaxVals :
         /\ decoder' = set_data(ty, decoder, page, n)
         /\ last' = [NoCall EXCEPT !.op = "set_data", !.req = n]
         /\ app' = [app EXCEPT !.n = n, !.returned = 0]
    /\ UNCHANGED <<ty, page, rt, slc, bs>>

Session_Decode ==
    /\ Running
    /\ \E n \in 0..MaxReq :
         LET c == decode(ty, DefaultBuffer(ty, n), decoder)
         IN /\ decoder' = c.dec
            /\ last' = Record("decode", n, decoder, c)
            /\ app' = [app EXCEPT !.returned = @ + Returned_count(c)]
    /\ UNCHANGED <<ty, page, rt, slc, bs>>

Session_Skip ==
    /\ Running
    /\ \E n \in 0..MaxReq, overflow_checks \in BOOLEAN :
         LET c == skip(ty, decoder, n, overflow_checks)
         IN /\ decoder' = c.dec
            /\ last' = Record("skip", n, decoder, c)
            /\ app' = [app EXCEPT !.returned = @ + Returned_count(c)]
    /\ UNCHANGED <<ty, page, rt, slc, bs>>

NextSession == Session_SetData \/ Session_Decode \/ Session_Skip

SpecSession == InitSession /\ [][NextSession]_vars

(***************************************************************************)
(* batches_to_flight_data (arrow-flight utils), one loop iteration per     *)
(* step.  What IpcDataGenerator::encoded_batch makes of a batch is an      *)
(* input: the dictionaries it emits for the batch, or the error it fails   *)
(* with.  A message carries what it was made from.                         *)
(***************************************************************************)
\* most batches handed to batches_to_flight_data
MaxFlightBatches == 3
\* most dictionary messages one batch produces
MaxDictsPerBatch == 2

FlightData(kind, schema, batch, dict) ==
    [kind |-> kind, schema |-> schema, batch |-> batch, dict |-> dict]

\* SchemaAsIpc::new(schema, &options).into()
SchemaAsIpc(schema) == FlightData("schema", schema, 0, 0)

\* the outcome of data_gen.encoded_batch(batch, ..) for the batch at
\* position i: Err(e), or the encoded dictionaries and the encoded batch
encoded_batch(batch, i) ==
    IF batch.err # "none"
    THEN [ok |-> FALSE, err |-> batch.err, dictionaries |-> <<>>,
          batch |-> FlightData("none", "", 0, 0)]
    ELSE [ok |-> TRUE, err |-> "none",
          dictionaries |-> [k \in 1..Len(batch.dicts) |->
                              FlightData("dictionary", "", i, batch.dicts[k])],
          batch |-> FlightData("record_batch", "", i, 0)]

\* a variant that sends each batch's dictionaries after all the batches
stream_batches_first(schema_flight_data, dictionaries, flight_data) ==
    <<schema_flight_data>> \o flight_data \o dictionaries

\* stream.push(schema_flight_data); stream.extend(dictionaries);
\* stream.extend(flight_data)
stream(schema_flight_data, dictionaries, flight_data) ==
    <<schema_flight_data>> \o dictionaries \o flight_data

FlightPending == [kind |-> "Pending", stream |-> <<>>, err |-> "none"]
FlightOk(s) == [kind |-> "Ok", stream |-> s, err |-> "none"]
FlightErr(e) == [kind |-> "Err", stream |-> <<>>, err |-> e]

FlightSchemas == {"s1", "s2"}
FlightErrors == {"e1", "e2"}
DictionaryIds == {1, 2}

\* the batches, each with what encoded_batch makes of it
FlightBatches ==
    [err : {"none"}, dicts : SeqsUpTo(DictionaryIds, MaxDictsPerBatch)]
    \cup [err : FlightErrors, dicts : {<<>>}]

InitFlight ==
    /\ ty = "BYTE_ARRAY"
    /\ decoder = PlainDecoderDetails_new(-1)
    /\ last = NoCall
    /\ page = <<>>
    /\ rt = RtOff
    /\ slc = SlcOff
    /\ bs = BsOff
    /\ \E schema \in FlightSchemas,
          batches \in SeqsUpTo(FlightBatches, MaxFlightBatches) :
         app = [fn |-> "batches_to_flight_data", schema |-> schema,
                batches |-> batches, i |-> 1, dictionaries |-> <<>>,
                flight_data |-> <<>>, result |-> FlightPending]

\* one iteration of `for batch in batches.iter()`; `?` returns the error
Flight_EncodeBatch ==
    /\ app.fn = "batches_to_flight_data"
    /\ app.result = FlightPending
    /\ app.i <= Len(app.batches)
    /\ LET r == encoded_batch(app.batches[app.i], app.i)
       IN app' = IF ~r.ok
                 THEN [app EXCEPT !.result = FlightErr(r.err)]
                 ELSE [app EXCEPT !.dictionaries = @ \o r.dictionaries,
                                  !.flight_data = Append(@, r.batch),
                                  !.i = @ + 1]
    /\ UNCHANGED <<ty, decoder, last, page, rt, slc, bs>>

\* after the loop: the stream is put together and returned
Flight_Return ==
    /\ app.fn = "batches_to_flight_data"
    /\ app.result = FlightPending
    /\ app.i > Len(app.batches)
    /\ app' = [app EXCEPT !.result =
                 FlightOk(stream(SchemaAsIpc(app.schema), app.dictionaries,
                                 app.flight_data))]
    /\ UNCHANGED <<ty, decoder, last, page, rt, slc, bs>>

NextFlight == Flight_EncodeBatch \/ Flight_Return

SpecFlight == InitFlight /\ [][NextFlight]_vars

(***************************************************************************)
(* Properties.                                                             *)
(***************************************************************************)
\* the cursor at the entry of the last decode / skip call (neither changes
\* the buffer)
Before ==
    [decoder EXCEPT !.start = last.start0, !.num_values = last.num_values0,
                    !.bit_reader.pos = last.pos0]

\* the number of values the last decode / skip call was to process
Requested == Min(last.req, last.num_values0)

\* the batch satisfies what the round-trip claim asks of it
BatchIsValid ==
    /\ ty \in {"BYTE_ARRAY", "FIXED_LEN_BYTE_ARRAY"} =>
         \A i \in 1..Len(rt.batch) : rt.batch[i].set
    /\ ty = "FIXED_LEN_BYTE_ARRAY" =>
         \A i \in 1..Len(rt.batch) :
            Len(rt.batch[i].bytes) = decoder.type_length

RoundTripHolds ==
    /\ last.res = Ok(Len(rt.batch))
    /\ last.out = rt.batch

\* C1 as stated: for every type and every batch of set values (for
\* FIXED_LEN_BYTE_ARRAY, of the type_length), encode, set_data and decode
\* return Ok(|V|) and leave the buffer equal to the batch.
C1_RoundTrip_AsStated ==
    (rt.phase = "decoded" /\ BatchIsValid) => RoundTripHolds

\* C1 amended: the same, for FIXED_LEN_BYTE_ARRAY only with a positive
\* type_length (decode asserts type_length > 0).
C1_RoundTrip ==
    (/\ rt.phase = "decoded"
     /\ BatchIsValid
     /\ ty = "FIXED_LEN_BYTE_ARRAY" => decoder.type_length > 0)
    => RoundTripHolds

C1_Witness ==
    /\ rt.phase = "decoded"
    /\ ty = "INT96"
    /\ Len(rt.batch) = 2
    /\ rt.batch[1] # rt.batch[2]
    /\ rt.batch[1][1] # rt.batch[1][3]
    /\ last.out = rt.batch

\* C2: a successful decode / skip returns min(requested, num_values),
\* lowers num_values by that count and, for the fixed-width types, raises
\* start by the count times the value's size.
C2_CountAndAdvance ==
    (last.op \in {"decode", "skip"} /\ last.res.kind = "Ok") =>
        /\ last.res.n = Requested
        /\ decoder.num_values = last.num_values0 - Requested
        /\ ty \in RawTypes =>
             decoder.start = last.start0 + Requested * size_of(ty)
        /\ ty = "INT96" => decoder.start = last.start0 + 12 * Requested
        /\ ty = "FIXED_LEN_BYTE_ARRAY" =>
             decoder.start = last.start0 + Requested * decoder.type_length

\* the bytes from `start` on hold k length-prefixed values
RECURSIVE PrefixedValuesFit(_, _, _)
PrefixedValuesFit(data, start, k) ==
    \/ k = 0
    \/ /\ start + 4 <= Len(data)
       /\ LET len == u32_from_le_bytes(SubSeq(data, start + 1, start + 4))
          IN /\ start + 4 + len <= Len(data)
             /\ PrefixedValuesFit(data, start + 4 + len, k - 1)

\* the armed cursor d holds fewer bytes than k values of type t need
ShortOfBytes(t, d, k) ==
    CASE t = "BOOLEAN" -> 8 * Len(d.bit_reader.buffer) - d.bit_reader.pos < k
      [] t = "BYTE_ARRAY" -> ~PrefixedValuesFit(d.data, d.start, k)
      [] t = "FIXED_LEN_BYTE_ARRAY" ->
            Len(d.data) - d.start < k * d.type_length
      [] OTHER -> Len(d.data) - d.start < k * WireSize(t)

Armed(t, d) == IF t = "BOOLEAN" THEN d.bit_reader.set ELSE d.data_set

\* C3: whenever the bytes left are fewer than the values to decode need,
\* decode returns the EOF error (no abort, no Ok with a smaller count).
C3_ShortDataIsEof ==
    (/\ last.op = "decode"
     /\ Armed(ty, Before)
     /\ ShortOfBytes(ty, Before, Requested))
    => last.res.kind = "EofErr"

\* C4: a decode / skip of a byte-array type that returns an error leaves
\* start and num_values as they were.
C4_NoPartialAdvance ==
    (/\ ty \in {"BYTE_ARRAY", "FIXED_LEN_BYTE_ARRAY"}
     /\ last.op \in {"decode", "skip"}
     /\ last.res.kind = "EofErr")
    => (decoder.start = last.start0 /\ decoder.num_values = last.num_values0)

\* C5: a BYTE_ARRAY skip returns the EOF error whenever a value it passes
\* over runs past the buffer, that is exactly where decode of as many
\* values returns the EOF error.
C5_SkipEofLikeDecode ==
    (ty = "BYTE_ARRAY" /\ last.op = "skip" /\ Armed(ty, Before)) =>
        /\ ~PrefixedValuesFit(Before.data, Before.start, Requested)
             => last.res.kind = "EofErr"
        /\ last.res.kind = "EofErr" <=>
             decode(ty, DefaultBuffer(ty, last.req), Before).res.kind = "EofErr"

\* C6: from the same cursor, skip(n) and decode of n elements give the
\* same result and leave the same start and num_values.
C6_SkipDecodeEquivalent ==
    last.op = "skip" =>
        LET d == decode(ty, DefaultBuffer(ty, last.req), Before)
        IN /\ d.res = last.res
           /\ d.dec.start = decoder.start
           /\ d.dec.num_values = decoder.num_values

\* C7: the cursor never points past its buffer.
C7_StartWithinBuffer ==
    decoder.data_set => decoder.start <= Len(decoder.data)

\* the range slice_from_slice is asked for lies within the buffer
InBounds(bytes, lo, hi) == lo <= hi /\ hi <= Len(bytes)

\* result r is Ok of bytes[lo..hi]
IsSubSlice(r, bytes, lo, hi) ==
    /\ r.kind = "Ok"
    /\ Len(r.bytes) = hi - lo
    /\ \A i \in 1..(hi - lo) : r.bytes[i] = bytes[lo + i]

IsOutOfBounds(r) ==
    /\ r.kind = "Err"
    /\ r.err.variant = "InvalidArgumentError"
    /\ r.err.msg = "Tried to extract byte(s)"

IsOverflow(r) ==
    /\ r.kind = "Err"
    /\ r.err.variant = "InvalidArgumentError"
    /\ r.err.msg \in {"Integer overflow computing slice start",
                      "Integer overflow computing slice end"}

\* C8: slice_from_slice returns Ok of the sub-slice, of length end - start,
\* for start <= end <= len, and the out-of-bounds error for every other
\* range.
C8_SliceFromSlice ==
    (slc.fn = "slice_from_slice" /\ slc.done) =>
        IF InBounds(slc.bytes, slc.lo, slc.hi)
        THEN IsSubSlice(slc.result, slc.bytes, slc.lo, slc.hi)
        ELSE /\ IsOutOfBounds(slc.result)
             /\ slc.result.err.lo = slc.lo
             /\ slc.result.err.hi = slc.hi
             /\ slc.result.err.len = Len(slc.bytes)

C8_Witness ==
    /\ slc.fn = "slice_from_slice"
    /\ slc.done
    /\ slc.lo = 1
    /\ slc.hi = Len(slc.bytes)
    /\ Len(slc.result.bytes) = 2
    /\ slc.result.bytes[1] # slc.result.bytes[2]

\* C9: slice_from_slice_at_offset returns the overflow error, distinct from
\* the out-of-bounds error, when base + start or base + end exceeds the
\* address width; otherwise what slice_from_slice returns for the range
\* moved by base.
C9_SliceAtOffset ==
    (slc.fn = "slice_from_slice_at_offset" /\ slc.done) =>
        IF slc.base + slc.lo > USIZE_MAX \/ slc.base + slc.hi > USIZE_MAX
        THEN IsOverflow(slc.result) /\ ~IsOutOfBounds(slc.result)
        ELSE IF InBounds(slc.bytes, slc.base + slc.lo, slc.base + slc.hi)
        THEN IsSubSlice(slc.result, slc.bytes, slc.base + slc.lo,
                        slc.base + slc.hi)
        ELSE /\ IsOutOfBounds(slc.result)
             /\ slc.result.err.lo = slc.base + slc.lo
             /\ slc.result.err.hi = slc.base + slc.hi

C9_Witness ==
    /\ slc.fn = "slice_from_slice_at_offset"
    /\ slc.done
    /\ slc.base = USIZE_MAX
    /\ slc.lo = 0
    /\ slc.hi = 1
    /\ Len(slc.bytes) > 0
    /\ IsOverflow(slc.result)

\* the keys of the searched range are all extractable and non-decreasing
SortedKeys ==
    /\ \A i \in bs.start0..(bs.end0 - 1) : bs.key_extractor[i].some
    /\ \A i, j \in bs.start0..(bs.end0 - 1) :
         i <= j => bs.key_extractor[i].v <= bs.key_extractor[j].v

TargetPresent ==
    \E i \in bs.start0..(bs.end0 - 1) : bs.key_extractor[i].v = bs.target

\* the result is Some(Ok(i)) for an index of the range holding the target
FoundAtMatch ==
    /\ bs.result.kind = "SomeOk"
    /\ bs.start0 <= bs.result.idx
    /\ bs.result.idx < bs.end0
    /\ bs.key_extractor[bs.result.idx].v = bs.target

\* the result is Some(Err(p)) with smaller keys before p, larger from p on
InsertionPoint ==
    /\ bs.result.kind = "SomeErr"
    /\ \A i \in bs.start0..(bs.result.idx - 1) :
         bs.key_extractor[i].v < bs.target
    /\ \A i \in bs.result.idx..(bs.end0 - 1) :
         bs.key_extractor[i].v > bs.target

\* C10 as stated: over sorted, extractable keys the search returns
\* Some(Ok(i)) at a match exactly when the target is present, and else
\* Some(Err(p)) with start <= p <= end and the keys split at p.
C10_SearchSorted_AsStated ==
    (bs.pc = "done" /\ SortedKeys) =>
        IF TargetPresent THEN FoundAtMatch
        ELSE /\ InsertionPoint
             /\ bs.start0 <= bs.result.idx
             /\ bs.result.idx <= bs.end0

\* C10 amended: p lies in start..end when start <= end; for a reversed
\* range (start > end) the result is Some(Err(start)).
C10_SearchSorted ==
    (bs.pc = "done" /\ SortedKeys) =>
        IF TargetPresent THEN FoundAtMatch
        ELSE /\ InsertionPoint
             /\ bs.start0 <= bs.result.idx
             /\ bs.start0 <= bs.end0 => bs.result.idx <= bs.end0
             /\ bs.start0 > bs.end0 => bs.result.idx = bs.start0

C10_Witness ==
    /\ bs.pc = "done"
    /\ SortedKeys
    /\ bs.start0 = 0
    /\ bs.end0 = MaxIdx
    /\ bs.key_extractor[0].v < bs.key_extractor[MaxIdx - 1].v
    /\ ~TargetPresent
    /\ bs.result = SomeErr(2)
    /\ Len(bs.probed) >= 2

\* the indices the key extractor was called with, in order
Probed == bs.probed

\* the extractor returned None at the k-th probe
FailedAt(k) == ~bs.key_extractor[Probed[k]].some

\* the first midpoint the search probes, for a non-empty range
FirstMid == bs.start0 + (bs.end0 - bs.start0) \div 2

\* C11: the search returns None exactly when the key extractor returned
\* None for a probed index; that probe is the last one made, whatever the
\* target; in particular a failure at the first midpoint gives None.
C11_NoneIffExtractionFailed ==
    /\ bs.pc = "loop" => \A k \in 1..Len(Probed) : ~FailedAt(k)
    /\ bs.pc = "done" =>
         /\ bs.result = ReturnNone <=> \E k \in 1..Len(Probed) : FailedAt(k)
         /\ \A k \in 1..Len(Probed) : FailedAt(k) => k = Len(Probed)
         /\ (bs.start0 < bs.end0 /\ ~bs.key_extractor[FirstMid].some) =>
              (bs.result = ReturnNone /\ Probed = <<FirstMid>>)

C11_Witness ==
    /\ bs.pc = "done"
    /\ bs.result = ReturnNone
    /\ Len(Probed) = 2
    /\ ~FailedAt(1)
    /\ FailedAt(2)
    /\ \E i \in 0..(MaxIdx - 1) :
         bs.key_extractor[i] = SomeKey(bs.target)

\* C12: on an empty range (start >= end) the search returns
\* Some(Err(start)) and never calls the key extractor.
C12_EmptyRange ==
    (bs.pc = "done" /\ bs.start0 >= bs.end0) =>
        (bs.result = SomeErr(bs.start0) /\ Probed = <<>>)

C12_Witness ==
    /\ bs.pc = "done"
    /\ bs.start0 = 0
    /\ bs.end0 = 0
    /\ \A i \in 0..(MaxIdx - 1) : ~bs.key_extractor[i].some
    /\ bs.result = SomeErr(0)

(***************************************************************************)
(* Exact integers for stating the Int96 properties: a sign and a           *)
(* magnitude, the magnitude a little-endian byte string without leading    *)
(* zero bytes.  Nothing here wraps.                                        *)
(***************************************************************************)
RECURSIVE Trim(_)
Trim(m) ==
    IF m = <<>> \/ m[Len(m)] # 0 THEN m ELSE Trim(SubSeq(m, 1, Len(m) - 1))

Pad(m, n) == m \o Zeros(n - Len(m))

NatLess(m1, m2) ==
    \/ Len(m1) < Len(m2)
    \/ /\ Len(m1) = Len(m2)
       /\ \E i \in 1..Len(m1) :
            /\ m1[i] < m2[i]
            /\ \A j \in (i + 1)..Len(m1) : m1[j] = m2[j]

RECURSIVE NatAddFrom(_, _, _, _)
NatAddFrom(m1, m2, i, c) ==
    IF i > Len(m1) THEN <<c>>
    ELSE LET s == m1[i] + m2[i] + c
         IN <<s % 256>> \o NatAddFrom(m1, m2, i + 1, s \div 256)

NatAdd(m1, m2) ==
    LET n == IF Len(m1) > Len(m2) THEN Len(m1) ELSE Len(m2)
    IN Trim(NatAddFrom(Pad(m1, n), Pad(m2, n), 1, 0))

RECURSIVE NatSubFrom(_, _, _, _)
NatSubFrom(m1, m2, i, b) ==
    IF i > Len(m1) THEN <<>>
    ELSE LET s == m1[i] - m2[i] - b
         IN IF s < 0 THEN <<s + 256>> \o NatSubFrom(m1, m2, i + 1, 1)
            ELSE <<s>> \o NatSubFrom(m1, m2, i + 1, 0)

\* m1 - m2 for m1 >= m2
NatSub(m1, m2) == Trim(NatSubFrom(m1, Pad(m2, Len(m1)), 1, 0))

RECURSIVE NatColumn(_, _, _, _)
NatColumn(m1, m2, k, i) ==
    IF i > Len(m1) THEN 0
    ELSE (IF k + 1 - i \in 1..Len(m2) THEN m1[i] * m2[k + 1 - i] ELSE 0)
         + NatColumn(m1, m2, k, i + 1)

RECURSIVE NatMulFrom(_, _, _, _)
NatMulFrom(m1, m2, k, c) ==
    IF k > Len(m1) + Len(m2) THEN <<>>
    ELSE LET s == NatColumn(m1, m2, k, 1) + c
         IN <<s % 256>> \o NatMulFrom(m1, m2, k + 1, s \div 256)

NatMul(m1, m2) == Trim(NatMulFrom(m1, m2, 1, 0))

Z(neg, mag) == [neg |-> neg /\ mag # <<>>, mag |-> mag]

\* a small natural number
ZNat(n) == Z(FALSE, Trim(le_bytes(n, 4)))

\* the value of an unsigned image
ZUnsigned(x) == Z(FALSE, Trim(x))

ZNeg(x) == Z(~x.neg, x.mag)

ZAdd(x, y) ==
    IF x.neg = y.neg THEN Z(x.neg, NatAdd(x.mag, y.mag))
    ELSE IF NatLess(x.mag, y.mag) THEN Z(y.neg, NatSub(y.mag, x.mag))
    ELSE Z(x.neg, NatSub(x.mag, y.mag))

ZSub(x, y) == ZAdd(x, ZNeg(y))

ZMul(x, y) == Z(x.neg # y.neg, NatMul(x.mag, y.mag))

ZLess(x, y) ==
    IF x.neg /\ ~y.neg THEN TRUE
    ELSE IF ~x.neg /\ y.neg THEN FALSE
    ELSE IF x.neg THEN NatLess(y.mag, x.mag)
    ELSE NatLess(x.mag, y.mag)

\* 2^(8n)
ZPow256(n) == Z(FALSE, Zeros(n) \o <<1>>)

\* the value of a two's-complement image
ZSigned(x) ==
    IF is_negative(x) THEN ZSub(ZUnsigned(x), ZPow256(Len(x)))
    ELSE ZUnsigned(x)

\* q is x / d truncated towards zero, for a small positive d
IsTruncatedQuotient(q, x, d) ==
    /\ q.neg => x.neg
    /\ ~NatLess(x.mag, NatMul(q.mag, ZNat(d).mag))
    /\ NatLess(x.mag, NatAdd(NatMul(q.mag, ZNat(d).mag), ZNat(d).mag))

\* x / d truncated towards zero
ZTruncDiv(x, d) == Z(x.neg, Trim(udiv(x.mag, d)))

\* x reduced modulo 2^(8n) into the signed n-byte range, as an image
ZWrap(x, n) ==
    LET low == Pad(SubSeq(x.mag, 1, IF Len(x.mag) < n THEN Len(x.mag) ELSE n), n)
    IN IF x.neg /\ low # Zeros(n)
       THEN Pad(NatSub(Zeros(n) \o <<1>>, low), n)
       ELSE low

\* x lies in the signed n-byte range
ZFits(x, n) == ZSigned(ZWrap(x, n)) = x

\* the words of an Int96 as the claims read them
Word(v, i) == ZUnsigned(v[i + 1])

\* x, an n-byte unsigned value, read as an n-byte signed integer
ZAsSigned(x, n) ==
    IF ZLess(x, Z(FALSE, Zeros(n - 1) \o <<128>>)) THEN x
    ELSE ZSub(x, ZPow256(n))

\* word 2 as it stands, and as a signed 32-bit integer
DayUnsigned(v) == Word(v, 2)
DaySigned(v) == ZAsSigned(DayUnsigned(v), 4)

\* word1 * 2^32 + word0 as it stands, and as a signed 64-bit integer
NanosUnsigned(v) == ZAdd(ZMul(Word(v, 1), ZPow256(4)), Word(v, 0))
NanosSigned(v) == ZAsSigned(NanosUnsigned(v), 8)

\* C13 as stated: a < b exactly when day(a) < day(b), or the days are equal
\* and nanos(a) < nanos(b), with day = word 2 and
\* nanos = word1 * 2^32 + word0.
C13_Int96Order_AsStated ==
    (app.fn = "cmp" /\ app.done) =>
        (app.result = "Less" <=>
            \/ ZLess(DayUnsigned(app.a), DayUnsigned(app.b))
            \/ /\ DayUnsigned(app.a) = DayUnsigned(app.b)
               /\ ZLess(NanosUnsigned(app.a), NanosUnsigned(app.b)))

\* C13 amended: the same with day = word 2 read as a signed 32-bit integer
\* and nanos = word1 * 2^32 + word0 read as a signed 64-bit integer.
C13_Int96Order ==
    (app.fn = "cmp" /\ app.done) =>
        (app.result = "Less" <=>
            \/ ZLess(DaySigned(app.a), DaySigned(app.b))
            \/ /\ DaySigned(app.a) = DaySigned(app.b)
               /\ ZLess(NanosSigned(app.a), NanosSigned(app.b)))

C13_Witness ==
    /\ app.fn = "cmp"
    /\ app.done
    /\ app.a[3] = app.b[3]
    /\ app.a[2] = <<1, 0, 0, 0>>
    /\ app.b[2] = <<148, 78, 0, 0>>
    /\ app.a[1] = <<255, 255, 255, 255>>
    /\ app.b[1] = <<0, 0, 0, 0>>
    /\ app.result = "Less"

\* units per day and nanoseconds per unit of the four conversions
PerDay(fn) ==
    CASE fn = "to_seconds" -> ZNat(86400)
      [] fn = "to_millis" -> ZNat(86400000)
      [] fn = "to_micros" -> ZMul(ZNat(86400), ZNat(1000000))
      [] fn = "to_nanos" -> ZMul(ZNat(86400), ZNat(1000000000))

NanosPerUnit(fn) ==
    CASE fn = "to_seconds" -> 1000000000
      [] fn = "to_millis" -> 1000000
      [] fn = "to_micros" -> 1000
      [] fn = "to_nanos" -> 1

\* (day - 2440588) * U + trunc(nanos / D), unbounded
SinceEpoch(fn, day, nanos) ==
    ZAdd(ZMul(ZSub(day, ZNat(2440588)), PerDay(fn)),
         ZTruncDiv(nanos, NanosPerUnit(fn)))

I32_MAX == <<255, 255, 255, 127>>

\* C14 as stated: every conversion returns
\* (day - 2440588) * U + trunc(nanos / D) reduced modulo 2^64 into the
\* signed 64-bit range, with day = word 2 as a signed 32-bit integer and
\* nanos = the 64-bit value word1 * 2^32 + word0.
C14_EpochConversions_AsStated ==
    (app.fn \in Int96Conversions /\ app.done) =>
        app.result =
            ZWrap(SinceEpoch(app.fn, DaySigned(app.a), NanosUnsigned(app.a)), 8)

\* C14 amended: the same with nanos read as a signed 64-bit integer (the
\* quotient is truncated towards zero); the conversions always return a
\* value, and with day = i32::MAX to_micros and to_nanos return a wrapped
\* one.
C14_EpochConversions ==
    (app.fn \in Int96Conversions /\ app.done) =>
        LET exact == SinceEpoch(app.fn, DaySigned(app.a), NanosSigned(app.a))
        IN /\ IsTruncatedQuotient(
                  ZTruncDiv(NanosSigned(app.a), NanosPerUnit(app.fn)),
                  NanosSigned(app.a), NanosPerUnit(app.fn))
           /\ Len(app.result) = 8
           /\ app.result = ZWrap(exact, 8)
           /\ ZFits(exact, 8) => ZSigned(app.result) = exact
           /\ (app.a[3] = I32_MAX /\ app.fn \in {"to_micros", "to_nanos"}) =>
                (~ZFits(exact, 8) /\ ZSigned(app.result) # exact)

C14_Witness ==
    /\ app.fn = "to_micros"
    /\ app.done
    /\ app.a[3] = I32_MAX
    /\ app.a[2] = <<148, 78, 0, 0>>
    /\ app.a[1] = <<255, 255, 78, 145>>
    /\ ~ZFits(SinceEpoch(app.fn, DaySigned(app.a), NanosSigned(app.a)), 8)
    /\ app.result =
         ZWrap(SinceEpoch(app.fn, DaySigned(app.a), NanosSigned(app.a)), 8)

\* x comes before y in the lexicographic order of byte strings
LexLess(x, y) ==
    \E k \in 0..Len(x) :
        /\ k <= Len(y)
        /\ \A i \in 1..k : x[i] = y[i]
        /\ \/ k = Len(x) /\ k < Len(y)
           \/ k < Len(x) /\ k < Len(y) /\ x[k + 1] < y[k + 1]

\* the order the claim gives two ByteArray values
ByteArrayOrder(a, b) ==
    IF ~a.set /\ ~b.set THEN "Equal"
    ELSE IF ~a.set THEN "Less"
    ELSE IF ~b.set THEN "Greater"
    ELSE IF a.bytes = b.bytes THEN "Equal"
    ELSE IF LexLess(a.bytes, b.bytes) THEN "Less"
    ELSE "Greater"

\* C15: an unset ByteArray equals only an unset one and sorts before every
\* set one; set ones are equal iff their bytes are, and are ordered
\* lexicographically; partial_cmp is Equal exactly when eq is true.
C15_ByteArrayEqOrd ==
    /\ (app.fn = "eq" /\ app.done) =>
         /\ ~app.a.set => (app.result.v <=> ~app.b.set)
         /\ (app.a.set /\ app.b.set) =>
              (app.result.v <=> app.a.bytes = app.b.bytes)
         /\ app.result.v <=> ByteArray_partial_cmp(app.a, app.b) = "Equal"
    /\ (app.fn = "partial_cmp" /\ app.done) =>
         /\ app.result.v = ByteArrayOrder(app.a, app.b)
         /\ (~app.a.set /\ app.b.set) => app.result.v = "Less"
         /\ app.result.v = "Equal" <=> ByteArray_eq(app.a, app.b)

C15_Witness ==
    /\ app.fn = "partial_cmp"
    /\ app.done
    /\ app.a = ByteArray_from(<<1, 2, 3>>)
    /\ app.b = ByteArray_from(<<3, 4>>)
    /\ app.result = Returned("Less")

\* C20: an unset ByteArray is not equal to a set empty one; data(), len(),
\* is_empty() and slice() on an unset ByteArray abort, heap_size() returns
\* 0; after set_data(b) the value is set and data() returns exactly b.
C20_UnsetVersusEmpty ==
    /\ ~ByteArray_eq(ByteArray_new, ByteArray_from(<<>>))
    /\ ByteArray_new # ByteArray_from(<<>>)
    /\ (app.fn = "eq" /\ app.done /\ app.a = ByteArray_new
        /\ app.b = ByteArray_from(<<>>)) => app.result = Returned(FALSE)
    /\ (app.fn \in {"data", "len", "is_empty", "slice"} /\ app.done
        /\ ~app.a.set) => app.result = Aborted
    /\ (app.fn = "heap_size" /\ app.done /\ ~app.a.set) =>
         app.result = Returned(0)
    /\ app.prior = "set_data" =>
         /\ app.a.set
         /\ app.done => app.result = Returned(app.b.bytes)

C20_Witness ==
    /\ app.prior = "set_data"
    /\ app.done
    /\ ~app.a0.set
    /\ app.b.bytes = <<1, 2>>
    /\ app.result = Returned(<<1, 2>>)

(***************************************************************************)
(* Decimal equality.                                                       *)
(***************************************************************************)
\* the raw unscaled bytes a constructor call stands for: the integer's
\* bytes from the most significant one down, or the byte array's contents
\* (a little-endian image read back to front)
RECURSIVE BigEndian(_)
BigEndian(x) == IF x = <<>> THEN <<>> ELSE BigEndian(Tail(x)) \o <<Head(x)>>

RawBytesOf(c) ==
    CASE c.ctor = "default" -> <<0, 0, 0, 0>>
      [] c.ctor \in {"from_i32", "from_i64"} -> BigEndian(c.value)
      [] c.ctor = "from_bytes" -> c.bytes.bytes

HasBytes(c) == c.ctor = "from_bytes" => c.bytes.set

SameParts(ca, cb) ==
    /\ ca.precision = cb.precision
    /\ ca.scale = cb.scale
    /\ RawBytesOf(ca) = RawBytesOf(cb)

DecimalEqDone == app.fn = "eq" /\ app.built /\ app.done

\* C16: two Decimal values of any backing variant (whose byte array, if
\* any, holds data) compare equal exactly when precision, scale and raw
\* unscaled bytes are all equal; so from_i32(3,5,2) equals
\* from_bytes([0,0,0,3],5,2), from_i64(v,p,s) never equals from_i32(v,p,s),
\* and the default equals from_i32(0,0,0).  Comparing with a Decimal whose
\* byte array holds no data aborts once precision and scale agree.
C16_DecimalEquality ==
    DecimalEqDone =>
      /\ (HasBytes(app.ca) /\ HasBytes(app.cb)) =>
           app.result = Returned(SameParts(app.ca, app.cb))
      /\ (app.result = Aborted) =>
           /\ ~(HasBytes(app.ca) /\ HasBytes(app.cb))
           /\ app.ca.precision = app.cb.precision
           /\ app.ca.scale = app.cb.scale
      /\ (/\ app.ca = [ctor |-> "from_i32", value |-> le_bytes(3, 4),
                       bytes |-> ByteArray_new, precision |-> 5, scale |-> 2]
          /\ app.cb = [ctor |-> "from_bytes", value |-> <<>>,
                       bytes |-> ByteArray_from(<<0, 0, 0, 3>>),
                       precision |-> 5, scale |-> 2])
           => app.result = Returned(TRUE)
      /\ (/\ app.ca.ctor = "from_i64"
          /\ app.cb.ctor = "from_i32"
          /\ app.ca.value = i32_as_i64(app.cb.value))
           => app.result = Returned(FALSE)
      /\ (/\ app.ca.ctor = "default"
          /\ app.cb = [ctor |-> "from_i32", value |-> le_bytes(0, 4),
                       bytes |-> ByteArray_new, precision |-> 0, scale |-> 0])
           => app.result = Returned(TRUE)

\* from_i32(3,5,2) was compared with from_bytes([0,0,0,3],5,2) and found equal
C16_Witness ==
    /\ DecimalEqDone
    /\ app.ca = [ctor |-> "from_i32", value |-> le_bytes(3, 4),
                 bytes |-> ByteArray_new, precision |-> 5, scale |-> 2]
    /\ app.cb = [ctor |-> "from_bytes", value |-> <<>>,
                 bytes |-> ByteArray_from(<<0, 0, 0, 3>>), precision |-> 5, scale |-> 2]
    /\ app.result = Returned(TRUE)

(***************************************************************************)
(* as_i64 / as_u64 and variable_length_bytes.                              *)
(***************************************************************************)
IntegerTypes == {"BOOLEAN", "INT32", "INT64"}

\* C17: as_i64 and as_u64 return Ok for every bool, i32 and i64 value and
\* a recoverable error, never an abort, for every f32, f64, Int96,
\* ByteArray and FixedLenByteArray value; as_u64 succeeds exactly when
\* as_i64 succeeds on the same value.
C17_AsI64AsU64 ==
    (app.fn \in {"as_i64", "as_u64"} /\ app.done) =>
      /\ ty \in IntegerTypes => app.result.kind = "Ok"
      /\ ty \notin IntegerTypes => app.result.kind = "General"
      /\ (app.fn = "as_u64") =>
           ((app.result.kind = "Ok") <=> (as_i64(ty, app.value[1]).kind = "Ok"))

\* as_u64 was called on a ByteArray that holds no data and returned an error
C17_Witness ==
    /\ app.fn = "as_u64"
    /\ app.done
    /\ ty = "BYTE_ARRAY"
    /\ app.value[1] = ByteArray_new
    /\ app.result.kind = "General"

RECURSIVE SumOfLengths(_)
SumOfLengths(values) ==
    IF values = <<>> THEN 0
    ELSE Len(Head(values).bytes) + SumOfLengths(Tail(values))

AllSet(values) == \A i \in 1..Len(values) : values[i].set

VlbDone == app.fn = "variable_length_bytes" /\ app.done

\* C18 as stated: None for the fixed-width types and Some(sum of the byte
\* lengths) for both ByteArray and FixedLenByteArray.
C18_VariableLengthBytes_AsStated ==
    VlbDone =>
      IF ty \in {"BYTE_ARRAY", "FIXED_LEN_BYTE_ARRAY"}
      THEN AllSet(app.value) =>
             app.result = Returned(Some_i64(SumOfLengths(app.value)))
      ELSE app.result = Returned(None_i64)

\* C18: variable_length_bytes returns None for every type but ByteArray,
\* FixedLenByteArray included; for ByteArray values that all hold data it
\* returns Some(sum of their byte lengths), Some(0) for an empty batch, and
\* it aborts when a value holds no data.
C18_VariableLengthBytes ==
    VlbDone =>
      IF ty = "BYTE_ARRAY"
      THEN /\ AllSet(app.value) =>
                app.result = Returned(Some_i64(SumOfLengths(app.value)))
           /\ ~AllSet(app.value) => app.result = Aborted
           /\ app.value = <<>> => app.result = Returned(Some_i64(0))
      ELSE app.result = Returned(None_i64)

\* a batch of two FixedLenByteArray values with bytes yielded None
C18_Witness ==
    /\ VlbDone
    /\ ty = "FIXED_LEN_BYTE_ARRAY"
    /\ Len(app.value) = 2
    /\ AllSet(app.value)
    /\ SumOfLengths(app.value) > 0
    /\ app.result = Returned(None_i64)

(***************************************************************************)
(* PLAIN wire layout of the byte-array types.                              *)
(***************************************************************************)
\* where value k starts in the output when every value is preceded by hdr
\* bytes
RECURSIVE WireOffset(_, _, _)
WireOffset(values, k, hdr) ==
    IF k = 1 THEN 0
    ELSE WireOffset(values, k - 1, hdr) + hdr + Len(values[k - 1].bytes)

WireLength(values, hdr) == WireOffset(values, Len(values) + 1, hdr)

EncodeReturned == rt.phase \in {"encoded", "armed", "decoded"}

\* C19: ByteArray::encode writes, for each value in input order, a 4-byte
\* length prefix equal to the value's byte length and then exactly that
\* many raw bytes, so the output is sum(4 + len) bytes long;
\* FixedLenByteArray::encode writes only the raw bytes of each value in
\* input order, so the output is sum(len) bytes long; neither writes
\* anything for an empty batch.
C19_ByteArrayWireLayout ==
    (EncodeReturned /\ ty \in {"BYTE_ARRAY", "FIXED_LEN_BYTE_ARRAY"}) =>
      LET hdr == IF ty = "BYTE_ARRAY" THEN 4 ELSE 0
      IN /\ Len(page) = WireLength(rt.batch, hdr)
         /\ \A k \in 1..Len(rt.batch) :
              LET off == WireOffset(rt.batch, k, hdr)
                  n == Len(rt.batch[k].bytes)
              IN /\ ty = "BYTE_ARRAY" =>
                      /\ page[off + 1] + 256 * page[off + 2] = n
                      /\ page[off + 3] = 0
                      /\ page[off + 4] = 0
                 /\ SubSeq(page, off + hdr + 1, off + hdr + n) = rt.batch[k].bytes
         /\ rt.batch = <<>> => page = <<>>

\* two ByteArray values of different non-zero lengths were encoded
C19_Witness ==
    /\ EncodeReturned
    /\ ty = "BYTE_ARRAY"
    /\ Len(rt.batch) = 2
    /\ Len(rt.batch[1].bytes) = 1
    /\ Len(rt.batch[2].bytes) = 2
    /\ Len(page) = 11

(***************************************************************************)
(* Int96 stores its words verbatim.                                        *)
(***************************************************************************)
\* C21: Int96::from(vec![a,b,c]).data() is [a,b,c], and so is data() after
\* set_data(a,b,c) on any Int96; from aborts on a vector whose length is
\* not 3; as_bytes yields 12 bytes, byte j of word i (least significant
\* byte first) at position 4 * i + j.
C21_Int96WordsVerbatim ==
    /\ (app.fn = "data" /\ app.done) => app.result = Returned(app.buf)
    /\ (app.fn = "from" /\ app.done) =>
         (Len(app.buf) # 3 /\ app.result = Aborted)
    /\ (app.fn = "data" /\ app.prior = "from") => Len(app.buf) = 3
    /\ (app.fn = "as_bytes" /\ app.done) =>
         /\ app.result.kind = "Value"
         /\ Len(app.result.v) = 12
         /\ \A i \in 0..2, j \in 0..3 :
              app.result.v[4 * i + j + 1] = (app.a[i + 1] \div (256 ^ j)) % 256

\* data() returned three different words stored by set_data over a receiver
\* that held other words
C21_Witness ==
    /\ app.fn = "data"
    /\ app.done
    /\ app.prior = "set_data"
    /\ app.buf = <<16909060, 0, 2147483647>>
    /\ app.result = Returned(<<16909060, 0, 2147483647>>)

(***************************************************************************)
(* Frame conditions and lifecycle of the cursor.                           *)
(***************************************************************************)
FixedWidthTypes == RawTypes \cup {"INT96"}

\* the last decode / skip call found fewer bytes after the cursor than the
\* values it was to process take
BatchTooLong == Len(Before.data) - last.start0 < WireSize(ty) * Requested

\* C22: for i32, i64, f32, f64 and Int96 a decode or skip call returns the
\* EOF error exactly when the bytes left after start are fewer than
\* size_of(T) * min(requested, num_values), and it then leaves start,
\* num_values and the cursor's buffer as they were and writes no element
\* of the output buffer.
C22_UpFrontBatchCheck ==
    (/\ ty \in FixedWidthTypes
     /\ last.op \in {"decode", "skip"}
     /\ Armed(ty, Before))
    => /\ last.res.kind = "EofErr" <=> BatchTooLong
       /\ last.res.kind = "EofErr" =>
            /\ decoder = Before
            /\ decoder.data = page
            /\ last.op = "decode" => last.out = DefaultBuffer(ty, last.req)

\* an Int96 decode failed on a cursor that an earlier call had advanced,
\* with bytes (but fewer than a value) left
C22_Witness ==
    /\ ty = "INT96"
    /\ last.op = "decode"
    /\ last.res.kind = "EofErr"
    /\ last.start0 = 12
    /\ Len(decoder.data) > 12
    /\ last.req = 2

\* C23: set_data on a non-boolean type sets start = 0 and num_values = n
\* whatever the cursor held; along the decode and skip calls that follow,
\* start never decreases, num_values never increases, and the counts
\* returned by the successful calls sum to at most n.
C23_CursorLifecycle ==
    /\ (last.op = "set_data" /\ ty # "BOOLEAN") =>
         /\ decoder.start = 0
         /\ decoder.num_values = last.req
         /\ decoder.data_set
         /\ decoder.data = page
    /\ last.op \in {"decode", "skip"} =>
         /\ decoder.start >= last.start0
         /\ decoder.num_values <= last.num_values0
         /\ decoder.num_values >= 0
    /\ app.returned <= app.n

\* both values of a BYTE_ARRAY session were handed out, the second one by
\* a decode call that found the cursor already advanced
C23_Witness ==
    /\ ty = "BYTE_ARRAY"
    /\ last.start0 > 0
    /\ last.op = "decode"
    /\ last.res = Ok(1)
    /\ app.n = 2
    /\ app.returned = 2
    /\ decoder.start > 0

\* the types the exhaustion and error-frame claims speak of, with a
\* positive type_length for FIXED_LEN_BYTE_ARRAY
NonBoolean ==
    /\ ty # "BOOLEAN"
    /\ ty = "FIXED_LEN_BYTE_ARRAY" => decoder.type_length > 0

\* C24: on an armed cursor of a non-boolean type whose num_values is 0,
\* every decode and every skip returns Ok(0) and leaves start, num_values
\* and the output buffer as they were, however many bytes remain; the
\* cursor stays exhausted until set_data is called again.
C24_Exhaustion ==
    (/\ NonBoolean
     /\ last.op \in {"decode", "skip"}
     /\ Armed(ty, Before)
     /\ last.num_values0 = 0)
    => /\ last.res = Ok(0)
       /\ decoder = Before
       /\ decoder.num_values = 0
       /\ last.op = "decode" => last.out = DefaultBuffer(ty, last.req)

\* a decode of two elements returned Ok(0) on an exhausted BYTE_ARRAY
\* cursor that stood inside its buffer, with bytes left
C24_Witness ==
    /\ ty = "BYTE_ARRAY"
    /\ last.op = "decode"
    /\ last.req = 2
    /\ last.num_values0 = 0
    /\ last.start0 > 0
    /\ last.start0 + 4 <= Len(decoder.data)
    /\ last.res = Ok(0)

\* C25: for every physical type, a decode or skip call that returns an
\* error leaves num_values as it was at the call's entry, also where start
\* has already moved past earlier values of the batch.
C25_ErrorKeepsNumValues ==
    (last.op \in {"decode", "skip"} /\ last.res.kind = "EofErr") =>
        decoder.num_values = last.num_values0

\* a BYTE_ARRAY decode of two values failed on the second one: start has
\* moved past the first value, num_values is still 2
C25_Witness ==
    /\ ty = "BYTE_ARRAY"
    /\ last.op = "decode"
    /\ last.req = 2
    /\ last.res.kind = "EofErr"
    /\ last.out[1].set
    /\ decoder.start > last.start0 + 4
    /\ last.num_values0 = 2
    /\ decoder.num_values = 2

(***************************************************************************)
(* Termination of try_binary_search_range_by.                              *)
(***************************************************************************)
RECURSIVE Log2Floor(_)
Log2Floor(n) == IF n <= 1 THEN 0 ELSE 1 + Log2Floor(n \div 2)

\* the most indices a search of a range of n indices may probe
MaxProbes(n) == IF n <= 0 THEN 0 ELSE Log2Floor(n) + 1

\* every index probed so far lies in the original range, none was probed
\* twice, their number is within the logarithmic bound, and the range
\* left lies within the original one
ProbesInRange ==
    /\ \A i \in 1..Len(bs.probed) :
         /\ bs.start0 <= bs.probed[i]
         /\ bs.probed[i] < bs.end0
    /\ \A i, j \in 1..Len(bs.probed) : bs.probed[i] = bs.probed[j] => i = j
    /\ Len(bs.probed) <= MaxProbes(bs.end0 - bs.start0)
    /\ bs.start0 < bs.end0 =>
         (bs.start0 <= bs.start /\ bs.start <= bs.end /\ bs.end <= bs.end0)

\* an iteration that does not return leaves a strictly shorter range
RangeShrinks ==
    (bs'.pc = "loop") => (bs'.end - bs'.start < bs.end - bs.start)

\* C26: try_binary_search_range_by terminates for every range and key
\* extractor: each iteration strictly shrinks [start, end), every probed
\* index lies in the original range (so the midpoint arithmetic stays
\* below end), no index is probed twice, and at most
\* floor(log2(end - start)) + 1 indices are probed.
C26_SearchTerminates ==
    /\ []ProbesInRange
    /\ [][RangeShrinks]_vars
    /\ <>(bs.pc = "done")

\* a search of a range of four indices returned after probing three of
\* them, the most the bound allows
C26_Witness ==
    /\ bs.pc = "done"
    /\ bs.end0 - bs.start0 = 4
    /\ Len(bs.probed) = 3

\* the number a bool, i32 or i64 value stands for
NumberOf(t, value) ==
    IF t = "BOOLEAN" THEN ZNat(IF value THEN 1 ELSE 0) ELSE ZSigned(value)

\* x mod 2^64 for x in the signed 64-bit range
Mod2To64(x) == IF x.neg THEN ZAdd(x, ZPow256(8)) ELSE x

TwoTo63 == Z(FALSE, Zeros(7) \o <<128>>)

\* C27: for every bool, i32 and i64 value v, as_i64(v) is v (an i32 sign
\* extended) and as_u64(v) is Ok(v mod 2^64): a negative v gives a value
\* of at least 2^63 (-1 gives 2^64 - 1), never an error.
C27_AsU64Reinterprets ==
    (app.fn \in {"as_i64", "as_u64"} /\ app.done /\ ty \in IntegerTypes) =>
      LET v == NumberOf(ty, app.value[1])
      IN /\ app.result.kind = "Ok"
         /\ Len(app.result.v) = 8
         /\ app.fn = "as_i64" => ZSigned(app.result.v) = v
         /\ app.fn = "as_u64" =>
              /\ ZUnsigned(app.result.v) = Mod2To64(v)
              /\ v.neg => ~ZLess(ZUnsigned(app.result.v), TwoTo63)
              /\ v = ZNeg(ZNat(1)) =>
                   app.result.v = <<255, 255, 255, 255, 255, 255, 255, 255>>

\* as_u64 of the i32 -1 returned 2^64 - 1
C27_Witness ==
    /\ app.fn = "as_u64"
    /\ app.done
    /\ ty = "INT32"
    /\ app.value[1] = <<255, 255, 255, 255>>
    /\ app.result = OkValue(<<255, 255, 255, 255, 255, 255, 255, 255>>)

I32_MIN == <<0, 0, 0, 128>>

\* (day - 2440588) * U, unbounded
DaysSinceEpoch(fn, day) == ZMul(ZSub(day, ZNat(2440588)), PerDay(fn))

\* C28: for every Int96 the exact value of
\* (day - 2440588) * U + trunc(nanos / D) fits a signed 64-bit integer for
\* seconds and milliseconds (whether the words are read as signed or as
\* unsigned), so to_seconds and to_millis return the exact value and no
\* step of theirs wraps; a value that does not fit arises only in
\* to_micros and to_nanos, for instance with day = i32::MIN.
C28_SecondsMillisExact ==
    (app.fn \in Int96Conversions /\ app.done) =>
        LET exact == SinceEpoch(app.fn, DaySigned(app.a), NanosSigned(app.a))
        IN /\ app.fn \in {"to_seconds", "to_millis"} =>
                /\ ZFits(exact, 8)
                /\ ZFits(DaysSinceEpoch(app.fn, DaySigned(app.a)), 8)
                /\ ZFits(SinceEpoch(app.fn, DayUnsigned(app.a),
                                    NanosUnsigned(app.a)), 8)
                /\ ZSigned(app.result) = exact
           /\ ~ZFits(exact, 8) => app.fn \in {"to_micros", "to_nanos"}
           /\ ZSigned(app.result) # exact =>
                app.fn \in {"to_micros", "to_nanos"}
           /\ (app.a[3] = I32_MIN /\ app.fn \in {"to_micros", "to_nanos"}) =>
                ~ZFits(exact, 8)

\* to_millis returned the exact value for the largest day and the largest
\* nanos an Int96 can hold
C28_Witness ==
    /\ app.fn = "to_millis"
    /\ app.done
    /\ app.a = <<<<255, 255, 255, 255>>, <<255, 255, 255, 127>>, I32_MAX>>
    /\ ZSigned(app.result)
         = SinceEpoch(app.fn, DaySigned(app.a), NanosSigned(app.a))

Reverse(ord) ==
    CASE ord = "Less" -> "Greater"
      [] ord = "Greater" -> "Less"
      [] OTHER -> "Equal"

\* the shift in get_nanos drops no bit and the addition stays within the
\* signed 64-bit range
NanosNeverOverflow(v) ==
    LET shifted == i64_shl_32(u32_as_i64(Int96_data(v)[2]))
    IN /\ ZUnsigned(shifted) = ZMul(Word(v, 1), ZPow256(4))
       /\ ZFits(ZAdd(ZSigned(shifted), Word(v, 0)), 8)
       /\ ZSigned(Int96_get_nanos(v)) = ZAdd(ZSigned(shifted), Word(v, 0))

\* C29: Int96 ordering is a total order consistent with equality:
\* cmp(a, b) is Equal exactly when a and b have identical words,
\* cmp(a, b) is the reverse of cmp(b, a), cmp is transitive, and the
\* computation of nanos, (word1 << 32) + word0, never overflows a signed
\* 64-bit integer.
C29_Int96TotalOrder ==
    (app.fn = "cmp" /\ app.done) =>
        /\ app.result \in {"Less", "Equal", "Greater"}
        /\ (app.result = "Equal") <=> Int96_eq(app.a, app.b)
        /\ (app.result = "Equal") <=> (app.a = app.b)
        /\ app.result = Reverse(Int96_cmp(app.b, app.a))
        /\ \A c \in Int96s :
             (app.result # "Greater" /\ Int96_cmp(app.b, c) # "Greater") =>
                /\ Int96_cmp(app.a, c) # "Greater"
                /\ (app.result = "Less" \/ Int96_cmp(app.b, c) = "Less") =>
                     Int96_cmp(app.a, c) = "Less"
        /\ NanosNeverOverflow(app.a)
        /\ NanosNeverOverflow(app.b)

\* two values with the same day whose nanos differ in the lowest word only,
\* the first with the top bit of word 1 set, were compared
C29_Witness ==
    /\ app.fn = "cmp"
    /\ app.done
    /\ app.a = <<<<0, 0, 0, 0>>, <<0, 0, 0, 128>>, <<140, 61, 37, 0>>>>
    /\ app.b = <<<<1, 0, 0, 0>>, <<0, 0, 0, 128>>, <<140, 61, 37, 0>>>>
    /\ app.result = "Less"

(***************************************************************************)
(* Order of the messages batches_to_flight_data returns.                   *)
(***************************************************************************)
\* the number of dictionaries the first n batches produce
RECURSIVE DictionariesBefore(_, _)
DictionariesBefore(batches, n) ==
    IF n = 0 THEN 0
    ELSE DictionariesBefore(batches, n - 1) + Len(batches[n].dicts)

Failing(batches) == {j \in 1..Len(batches) : batches[j].err # "none"}

\* C30: batches_to_flight_data returns the schema message first, then all
\* dictionary messages in the order in which the batches produced them,
\* then one record-batch message per input batch in input order, that is
\* 1 + dictionaries + batches messages; if encoding a batch fails, the
\* call returns that error and no stream.
C30_FlightDataOrder ==
    (app.fn = "batches_to_flight_data" /\ app.result # FlightPending) =>
      LET batches == app.batches
          n == Len(batches)
          d == DictionariesBefore(batches, n)
          s == app.result.stream
      IN IF Failing(batches) # {}
         THEN /\ app.result.kind = "Err"
              /\ s = <<>>
              /\ \E j \in Failing(batches) :
                   /\ \A k \in Failing(batches) : j <= k
                   /\ app.result.err = batches[j].err
         ELSE /\ app.result.kind = "Ok"
              /\ Len(s) = 1 + d + n
              /\ s[1] = [kind |-> "schema", schema |-> app.schema,
                         batch |-> 0, dict |-> 0]
              /\ \A j \in 1..n :
                   /\ s[1 + d + j].kind = "record_batch"
                   /\ s[1 + d + j].batch = j
                   /\ \A k \in 1..Len(batches[j].dicts) :
                        LET m == s[1 + DictionariesBefore(batches, j - 1) + k]
                        IN /\ m.kind = "dictionary"
                           /\ m.batch = j
                           /\ m.dict = batches[j].dicts[k]

\* three batches, the first with two dictionaries and the third with one,
\* gave a stream of seven messages
C30_Witness ==
    /\ app.fn = "batches_to_flight_data"
    /\ app.result.kind = "Ok"
    /\ Len(app.batches) = 3
    /\ app.batches[1].dicts = <<2, 1>>
    /\ app.batches[2].dicts = <<>>
    /\ app.batches[3].dicts = <<1>>
    /\ Len(app.result.stream) = 7

====
